---- MODULE Spec2Model ----
(***************************************************************************)
(* Model of the diagram-to-graph population engine                         *)
(* (classdiagram-to-neo4j/scripts/populate_neo4j.py).                      *)
(*                                                                         *)
(* Python strings are sequences of one-character strings, so that          *)
(* concatenation, suffix tests and the cardinality grammar are computed    *)
(* character by character.  A Python value is a record [t, s]: t is the    *)
(* type tag ("absent" stands for a missing dictionary key), s the          *)
(* characters of a string (or the digits of a number).                     *)
(***************************************************************************)
EXTENDS Integers, Sequences, FiniteSets, TLC

VARIABLES
    arg,        \* input of the pure function under check (pure-function specs)
    res,        \* its result
    nodes,      \* store: node id <<label, key>> -> properties
    edges,      \* store: edge id <<src, relType, dst>> -> properties
    schema,     \* store: names of the declared constraints and indexes
    server,     \* store: what the version probe answers
    clock,      \* store-independent environment: the number of utcnow() readings so far
    run,        \* the population run in progress (its locals and position)
    hist,       \* history: runs so far, the previous run and the store it left, the
                \* store at the start of the current run, the steps a store failure hit
    data_storage,   \* mock REST app: resource -> list of stored items
    app             \* mock REST app: uuids issued, requests received, handlers suspended

vars == <<arg, res, nodes, edges, schema, server, clock, run, hist, data_storage, app>>

----------------------------------------------------------------------------
(* Python values *)

PyAbsent == [t |-> "absent", s |-> <<>>]
PyNone   == [t |-> "none", s |-> <<>>]
PyTrue   == [t |-> "bool", s |-> <<"T">>]
PyFalse  == [t |-> "bool", s |-> <<"F">>]
PyStr(s) == [t |-> "str", s |-> s]
PyInt(s) == [t |-> "int", s |-> s]

IsStr(v) == v.t = "str"

\* dict.get(key) and dict.get(key, default)
Get(v) == IF v.t = "absent" THEN PyNone ELSE v
GetOr(v, default) == IF v.t = "absent" THEN default ELSE v

\* Python truthiness, as used by `a or b`
Truthy(v) ==
    CASE v.t = "absent" -> FALSE
      [] v.t = "none"   -> FALSE
      [] v.t = "str"    -> v.s # <<>>
      [] v.t = "int"    -> v.s # <<"0">>
      [] v.t = "bool"   -> v.s = <<"T">>
      [] OTHER          -> TRUE

PyOr(a, b) == IF Truthy(a) THEN a ELSE b

\* The Python slice s[m-1:n]: positions m..n of s, cut at the ends of s
Slice(s, m, n) ==
    LET lo == IF m < 1 THEN 1 ELSE m
        hi == IF n > Len(s) THEN Len(s) ELSE n
    IN  IF lo > hi THEN <<>> ELSE SubSeq(s, lo, hi)

EndsWith(s, suffix) ==
    /\ Len(s) >= Len(suffix)
    /\ SubSeq(s, Len(s) - Len(suffix) + 1, Len(s)) = suffix

StartsWith(s, prefix) ==
    /\ Len(s) >= Len(prefix)
    /\ SubSeq(s, 1, Len(prefix)) = prefix

----------------------------------------------------------------------------
(* validate_cardinality *)

VALID_CARDINALITY_PATTERNS ==
    { <<"0",".",".","1">>, <<"0",".",".","*">>, <<"1">>, <<"1",".",".","*">>,
      <<"1",".",".","1">>, <<"*">>, <<"0",".",".","0">>, <<"1",".",".","0">>,
      <<"0",".",".","n">>, <<"1",".",".","n">>, <<"n">>, <<"m",".",".","n">> }

\* \d, restricted to the ASCII digits
DigitChars == {"0", "1", "2", "3", "4", "5", "6", "7", "8", "9"}

\* \d+ matching the whole of q
IsDigits(q) == Len(q) >= 1 /\ \A k \in 1..Len(q) : q[k] \in DigitChars

\* The places where `$` matches in s: at the end, and just before a final newline.
DollarEnds(s) ==
    {Len(s)} \cup (IF Len(s) >= 1 /\ s[Len(s)] = "\n" THEN {Len(s) - 1} ELSE {})

\* re.match(r'^\d+\.\.\d+$', s)
MatchRange(s) ==
    \E e \in DollarEnds(s) : \E i \in 1..e :
        /\ IsDigits(Slice(s, 1, i))
        /\ Slice(s, i + 1, i + 2) = <<".", ".">>
        /\ i + 2 < e
        /\ IsDigits(Slice(s, i + 3, e))

\* re.match(r'^\d+\.\.\*$', s)
MatchOpenRange(s) ==
    \E e \in DollarEnds(s) : \E i \in 1..e :
        /\ IsDigits(Slice(s, 1, i))
        /\ Slice(s, i + 1, e) = <<".", ".", "*">>

\* The result is "ok" for None, else the kind of error message returned.
validate_cardinality(card) ==
    IF card.t = "none" THEN "ok"
    ELSE IF ~IsStr(card) THEN "not_a_string"
    ELSE IF card.s \in VALID_CARDINALITY_PATTERNS THEN "ok"
    ELSE IF MatchRange(card.s) THEN "ok"
    ELSE IF MatchOpenRange(card.s) THEN "ok"
    ELSE "invalid_format"

----------------------------------------------------------------------------
(* generate_fqn, determine_entity_kind *)

\* generate_fqn without its separator
generate_fqn_NoSeparator(spec_id, entity_name) == spec_id \o entity_name

generate_fqn(spec_id, entity_name) == spec_id \o <<"#">> \o entity_name

STR_Entity      == PyStr(<<"E","n","t","i","t","y">>)
STR_RefType     == PyStr(<<"R","e","f","T","y","p","e">>)
STR_SchemaBlock == PyStr(<<"S","c","h","e","m","a","B","l","o","c","k">>)

ALLOWED_KINDS == {STR_Entity, STR_RefType, STR_SchemaBlock}

----------------------------------------------------------------------------
(* Documents.                                                              *)
(*   doc.meta           : record of Python values                          *)
(*   doc.entities       : [t, items], t = "dict" | "none" | "absent";      *)
(*                        items = <<[name, data]>> in insertion order      *)
(*   doc.relationships  : [t, items], t = "list" | "none" | "absent"       *)
(* An entity's data, a property and a relationship are records with        *)
(* t = "dict", or t = "none" for a JSON null in their place.               *)

PyList == [t |-> "list", s |-> <<>>]    \* a non-empty list: unhashable, truthy

Hashable(v) == v.t # "list"

STR_out           == PyStr(<<"o","u","t">>)
STR_in            == PyStr(<<"i","n">>)
STR_bidirectional == PyStr(<<"b","i","d","i","r","e","c","t","i","o","n","a","l">>)

VALID_DIRECTIONS == {STR_out, STR_in, STR_bidirectional}

RECURSIVE Concat(_)
Concat(ss) == IF ss = <<>> THEN <<>> ELSE Head(ss) \o Concat(Tail(ss))

Err(code, elem, i, j) == [code |-> code, elem |-> elem, i |-> i, j |-> j]

ErrIf(cond, e) == IF cond THEN <<e>> ELSE <<>>

\* set(data["entities"].keys()), or the empty set
EntityNames(data) ==
    IF data.entities.t = "dict"
    THEN {data.entities.items[i].name : i \in 1..Len(data.entities.items)}
    ELSE {}

\* x in entity_names, for a hashable Python value x
InNames(x, names) == IsStr(x) /\ x.s \in names

\* lines 112-121: the checks of one property of one entity
PropertyErrors(i, j, prop) ==
    IF prop.t # "dict" THEN <<Err("property_not_dict", "property", i, j)>>
    ELSE ErrIf(prop.name.t = "absent", Err("property_missing_name", "property", i, j))
         \o ErrIf(prop.type.t # "absent" /\ ~IsStr(prop.type),
                  Err("property_type_not_string", "property", i, j))

\* lines 97-121: the checks of one entity
EntityErrors(i, ent) ==
    IF ent.data.t # "dict" THEN <<Err("entity_not_dict", "entity", i, 0)>>
    ELSE ErrIf(ent.data.kind.t # "absent" /\ ent.data.kind \notin ALLOWED_KINDS,
               Err("invalid_kind", "entity", i, 0))
         \o (IF ent.data.properties.t = "absent" THEN <<>>
             ELSE IF ent.data.properties.t # "list"
             THEN <<Err("properties_not_list", "entity", i, 0)>>
             ELSE Concat([j \in 1..Len(ent.data.properties.items) |->
                            PropertyErrors(i, j, ent.data.properties.items[j])]))

\* `kind not in ALLOWED_KINDS` hashes kind: an unhashable kind raises TypeError
EntityRaises(ent) ==
    /\ ent.data.t = "dict"
    /\ ent.data.kind.t # "absent"
    /\ ~Hashable(ent.data.kind)

CardinalityErrors(i, code, card) ==
    ErrIf(card.t # "absent" /\ validate_cardinality(card) # "ok",
          Err(code, "relationship", i, 0))

\* lines 125-172: the checks of one relationship
RelationshipErrors(i, rel, names) ==
    IF rel.t # "dict" THEN <<Err("relationship_not_dict", "relationship", i, 0)>>
    ELSE (IF rel.from.t = "absent"
          THEN <<Err("missing_from", "relationship", i, 0)>>
          ELSE ErrIf(~InNames(rel.from, names), Err("from_not_found", "relationship", i, 0)))
         \o (IF rel.to.t = "absent"
             THEN <<Err("missing_to", "relationship", i, 0)>>
             ELSE ErrIf(~InNames(rel.to, names), Err("to_not_found", "relationship", i, 0)))
         \o CardinalityErrors(i, "bad_fromCardinality", rel.fromCardinality)
         \o CardinalityErrors(i, "bad_toCardinality", rel.toCardinality)
         \o CardinalityErrors(i, "bad_cardinality", rel.cardinality)
         \o ErrIf(rel.direction.t # "absent" /\ rel.direction \notin VALID_DIRECTIONS,
                  Err("invalid_direction", "relationship", i, 0))
         \o ErrIf(rel.type.t # "absent" /\ Truthy(rel.type) /\ ~IsStr(rel.type),
                  Err("type_not_string", "relationship", i, 0))

\* The membership tests hash their left operand (TypeError when unhashable);
\* rel_type.startswith raises AttributeError when a truthy type is no string.
RelationshipRaises(rel) ==
    /\ rel.t = "dict"
    /\ \/ rel.from.t # "absent" /\ ~Hashable(rel.from)
       \/ rel.to.t # "absent" /\ ~Hashable(rel.to)
       \/ rel.direction.t # "absent" /\ ~Hashable(rel.direction)
       \/ rel.type.t # "absent" /\ Truthy(rel.type) /\ ~IsStr(rel.type)

\* lines 83-93: the top-level keys
StructureErrors(data) ==
    (IF data.entities.t = "absent" THEN <<Err("missing_entities", "doc", 0, 0)>>
     ELSE ErrIf(data.entities.t # "dict", Err("entities_not_dict", "doc", 0, 0)))
    \o (IF data.relationships.t = "absent"
        THEN <<Err("missing_relationships", "doc", 0, 0)>>
        ELSE ErrIf(data.relationships.t # "list", Err("relationships_not_list", "doc", 0, 0)))

\* The result: the list of errors, or raised = TRUE when an exception escapes.
validate_extracted_data(data) ==
    LET ents == IF data.entities.t = "dict" THEN data.entities.items ELSE <<>>
        rels == IF data.relationships.t = "list" THEN data.relationships.items ELSE <<>>
        names == EntityNames(data)
        raised == \/ \E i \in 1..Len(ents) : EntityRaises(ents[i])
                  \/ \E i \in 1..Len(rels) : RelationshipRaises(rels[i])
    IN  IF raised THEN [errors |-> <<>>, raised |-> TRUE]
        ELSE [errors |-> StructureErrors(data)
                         \o Concat([i \in 1..Len(ents) |-> EntityErrors(i, ents[i])])
                         \o Concat([i \in 1..Len(rels) |->
                                      RelationshipErrors(i, rels[i], names)]),
              raised |-> FALSE]

----------------------------------------------------------------------------
(* determine_entity_kind: the resolved kind, or PyRaise when the function  *)
(* raises (TypeError: `"kind" in None`, or an unhashable declared kind).    *)

PyRaise == [t |-> "raise", s |-> <<>>]

SUFFIX_Ref       == <<"R","e","f">>
SUFFIX_Reference == <<"R","e","f","e","r","e","n","c","e">>

determine_entity_kind(entity_name, entity_data) ==
    IF EndsWith(entity_name, SUFFIX_Ref) \/ EndsWith(entity_name, SUFFIX_Reference)
    THEN STR_RefType
    ELSE IF entity_data.t # "dict" THEN PyRaise
    ELSE IF entity_data.kind.t = "absent" THEN STR_Entity
    ELSE IF ~Hashable(entity_data.kind) THEN PyRaise
    ELSE IF entity_data.kind \in ALLOWED_KINDS THEN entity_data.kind
    ELSE STR_Entity

----------------------------------------------------------------------------
(* derive_spec_id, with pathlib's parts and stem *)

\* The first position of character c in s, or 0
RECURSIVE IndexFrom(_, _, _)
IndexFrom(s, c, k) ==
    IF k > Len(s) THEN 0 ELSE IF s[k] = c THEN k ELSE IndexFrom(s, c, k + 1)

IndexOf(s, c) == IndexFrom(s, c, 1)

\* The last position of character c in s, or 0
RECURSIVE LastIndexFrom(_, _, _)
LastIndexFrom(s, c, k) ==
    IF k < 1 THEN 0 ELSE IF s[k] = c THEN k ELSE LastIndexFrom(s, c, k - 1)

LastIndexOf(s, c) == LastIndexFrom(s, c, Len(s))

\* s.split(c)
RECURSIVE Split(_, _)
Split(s, c) ==
    LET i == IndexOf(s, c)
    IN  IF i = 0 THEN <<s>>
        ELSE <<SubSeq(s, 1, i - 1)>> \o Split(SubSeq(s, i + 1, Len(s)), c)

\* s.split(c, 1)
SplitOnce(s, c) ==
    LET i == IndexOf(s, c)
    IN  IF i = 0 THEN <<s>> ELSE <<SubSeq(s, 1, i - 1), SubSeq(s, i + 1, Len(s))>>

RECURSIVE DropSegments(_)
DropSegments(segs) ==
    IF segs = <<>> THEN <<>>
    ELSE IF Head(segs) = <<>> \/ Head(segs) = <<".">> THEN DropSegments(Tail(segs))
    ELSE <<Head(segs)>> \o DropSegments(Tail(segs))

\* Path(p).parts on POSIX: empty and "." segments vanish, a leading "/" is the root part
PathParts(p) ==
    (IF Len(p) >= 1 /\ p[1] = "/" THEN << <<"/">> >> ELSE <<>>)
    \o DropSegments(Split(p, "/"))

\* Path(p).name: the last part, unless it is the root
PathName(p) ==
    LET segs == DropSegments(Split(p, "/"))
    IN  IF segs = <<>> THEN <<>> ELSE segs[Len(segs)]

\* Path(p).stem: the name without its last suffix
PathStem(p) ==
    LET name == PathName(p)
        i == LastIndexOf(name, ".")
    IN  IF 1 < i /\ i < Len(name) THEN SubSeq(name, 1, i - 1) ELSE name

PREFIX_tmf  == <<"t","m","f">>
PREFIX_spec == <<"s","p","e","c">>

LooksLikeSpec(s) == StartsWith(s, PREFIX_tmf) \/ StartsWith(s, PREFIX_spec)

STR_default == <<"d","e","f","a","u","l","t">>

\* Returns <<spec_id, diagram_id>> (strings). source_path is a string; meta a record.
derive_spec_id(source_path, meta) ==
    IF meta.specId.t # "absent"
    THEN <<meta.specId.s,
           IF Truthy(Get(meta.diagramId)) THEN meta.diagramId.s ELSE PathStem(source_path)>>
    ELSE
      LET parts == PathParts(source_path)
          stem  == PathStem(source_path)
          n     == Len(parts)
          \* `parts` is rebound to stem.split("_", 1) when the stem holds an underscore
          sp    == SplitOnce(stem, "_")
          parts2 == IF IndexOf(stem, "_") # 0 THEN sp ELSE parts
      IN  IF n >= 2 /\ LooksLikeSpec(parts[n - 1]) THEN <<parts[n - 1], stem>>
          ELSE IF IndexOf(stem, "_") # 0 /\ LooksLikeSpec(sp[1]) THEN <<sp[1], sp[2]>>
          ELSE IF Len(parts2) >= 2 THEN <<parts2[Len(parts2) - 1], stem>>
          ELSE <<STR_default, stem>>

----------------------------------------------------------------------------
(* The store.  From an empty store the program's MERGE patterns keep at    *)
(* most one node per (label, key) and one edge per (source, type, target), *)
(* so a node is identified by <<label, key>> and an edge by                *)
(* <<source, type, target>>.                                               *)

EmptyMap == [x \in {} |-> <<>>]

\* MERGE ... SET: create or match, then overwrite the properties
MergeSet(f, id, props) == [x \in DOMAIN f \cup {id} |-> IF x = id THEN props ELSE f[x]]

\* MERGE without SET: create when absent, leave a match alone
MergeKeep(f, id, props) ==
    [x \in DOMAIN f \cup {id} |-> IF x \in DOMAIN f THEN f[x] ELSE props]

NoProps == [props |-> "none"]

\* MATCH (e) WHERE e.fqn = fqn: every node, of any label, with that fqn property
MatchFqn(N, fqn) == {n \in DOMAIN N : n[1] # "SchemaBlock" /\ N[n].fqn = fqn}

\* MATCH (e) WHERE e.specId = spec_id: every node with that specId property
MatchSpecId(N, spec_id) == {n \in DOMAIN N : n[1] # "Field" /\ N[n].specId = spec_id}

\* MATCH (sb:SchemaBlock {diagramId: diagram_id})
MatchSchemaBlock(N, diagram_id) ==
    {n \in DOMAIN N : n[1] = "SchemaBlock" /\ N[n].diagramId = diagram_id}

----------------------------------------------------------------------------
(* create_stable_constraints, create_stable_indexes *)

CONSTRAINT_NAMES == {"entity_fqn", "reftype_fqn", "schema_block_id", "field_fqn"}

NODE_INDEX_NAMES == {"entity_name", "entity_spec_id", "reftype_name", "field_name"}

REL_INDEX_NAMES == {"relationship_type", "relationship_cardinality"}

\* CREATE CONSTRAINT ... IF NOT EXISTS, each statement in its own try/except
create_stable_constraints(S) == S \cup CONSTRAINT_NAMES

MIN_MAJOR == 4
MIN_MINOR == 3

\* The version probe: srv.probe_ok = FALSE when the probe raises
SkipRelIndexes(srv) ==
    /\ srv.probe_ok
    /\ \/ srv.major < MIN_MAJOR
       \/ srv.major = MIN_MAJOR /\ srv.minor < MIN_MINOR

\* Relationship indexes only after a probe that succeeded and reported enough
create_stable_indexes_SkipOnProbeFailure(S, srv) ==
    S \cup NODE_INDEX_NAMES
      \cup (IF srv.probe_ok /\ ~SkipRelIndexes(srv) THEN REL_INDEX_NAMES ELSE {})

create_stable_indexes(S, srv) ==
    S \cup NODE_INDEX_NAMES \cup (IF SkipRelIndexes(srv) THEN {} ELSE REL_INDEX_NAMES)

----------------------------------------------------------------------------
(* create_schema_block *)

STR_unknown == <<"u","n","k","n","o","w","n">>
STR_1_0     == <<"1",".","0">>
STR_TitlePrefix == <<"S","c","h","e","m","a"," ","B","l","o","c","k",":"," ">>

DecimalDigits == <<"0", "1", "2", "3", "4", "5", "6", "7", "8", "9">>

RECURSIVE Decimal(_)
Decimal(n) ==
    IF n < Len(DecimalDigits) THEN <<DecimalDigits[n + 1]>>
    ELSE Decimal(n \div Len(DecimalDigits)) \o <<DecimalDigits[(n % Len(DecimalDigits)) + 1]>>

\* datetime.utcnow().isoformat() + "Z" at the now-th reading of the clock
UtcNow(now) == <<"T">> \o Decimal(now) \o <<"Z">>

Source(meta) == GetOr(meta.source, PyStr(STR_unknown))

SchemaBlockIds(data) == derive_spec_id(Source(data.meta).s, data.meta)

SchemaBlockProps(data, now) ==
    LET meta == data.meta
        ids  == SchemaBlockIds(data)
    IN  [id          |-> ids[2],
         specId      |-> ids[1],
         diagramId   |-> ids[2],
         title       |-> GetOr(meta.title, PyStr(STR_TitlePrefix \o ids[1] \o <<"/">> \o ids[2])),
         version     |-> GetOr(meta.version, PyStr(STR_1_0)),
         artifact    |-> Source(meta),
         extractedAt |-> GetOr(meta.extracted_at, PyStr(UtcNow(now)))]

\* The node is keyed by the pair of specification and diagram
create_schema_block_KeyedBySpec(N, data, now) ==
    LET props == SchemaBlockProps(data, now)
    IN  MergeSet(N, <<"SchemaBlock", props.specId \o <<"/">> \o props.id>>, props)

\* The properties set only when the node is created
create_schema_block_OnCreateOnly(N, data, now) ==
    LET props == SchemaBlockProps(data, now)
    IN  MergeKeep(N, <<"SchemaBlock", props.id>>, props)

\* MERGE (sb:SchemaBlock {id: $diagram_id}) SET ...
create_schema_block(N, data, now) ==
    LET props == SchemaBlockProps(data, now)
    IN  MergeSet(N, <<"SchemaBlock", props.id>>, props)

----------------------------------------------------------------------------
(* populate_neo4j: the entity writes (lines 408-462) *)

Entities(data) == IF data.entities.t = "dict" THEN data.entities.items ELSE <<>>

\* The partition loop raises when `data["entities"]` has no .items() or when
\* determine_entity_kind raises.
PartitionRaises(data) ==
    \/ data.entities.t = "none"
    \/ \E i \in 1..Len(Entities(data)) :
          determine_entity_kind(Entities(data)[i].name, Entities(data)[i].data) = PyRaise

\* reftype_items when wantRef, entity_items otherwise, in document order
PartitionItems(data, wantRef) ==
    SelectSeq(Entities(data),
              LAMBDA ent : (determine_entity_kind(ent.name, ent.data) = STR_RefType) = wantRef)

\* COALESCE(data.label, name)
EntityLabel(ent) ==
    IF ent.data.t = "dict" /\ Get(ent.data.label).t # "none"
    THEN ent.data.label
    ELSE PyStr(ent.name)

\* The declared kind stored verbatim when there is one
EntityProps_DeclaredKind(ent, spec_id, kind) ==
    [fqn    |-> generate_fqn(spec_id, ent.name),
     name   |-> ent.name,
     label  |-> EntityLabel(ent),
     specId |-> spec_id,
     kind   |-> IF ent.data.t = "dict" /\ ent.data.kind.t # "absent"
                THEN ent.data.kind ELSE kind]

EntityProps(ent, spec_id, kind) ==
    [fqn    |-> generate_fqn(spec_id, ent.name),
     name   |-> ent.name,
     label  |-> EntityLabel(ent),
     specId |-> spec_id,
     kind   |-> kind]

\* UNWIND $entities ... MERGE (e:<label> {fqn: fqn}) SET ..., row by row
RECURSIVE WriteEntityRows(_, _, _, _, _)
WriteEntityRows(N, label, kind, items, spec_id) ==
    IF items = <<>> THEN N
    ELSE LET props == EntityProps(Head(items), spec_id, kind)
         IN  WriteEntityRows(MergeSet(N, <<label, props.fqn>>, props),
                             label, kind, Tail(items), spec_id)

\* query_entity: label Entity, kind 'Entity'
WriteEntities(N, data, spec_id) ==
    WriteEntityRows(N, "Entity", STR_Entity, PartitionItems(data, FALSE), spec_id)

\* query_reftype: label RefType, kind 'RefType'
WriteRefTypes(N, data, spec_id) ==
    WriteEntityRows(N, "RefType", STR_RefType, PartitionItems(data, TRUE), spec_id)

\* entity_fqns[record["entity_name"]] = record["fqn"] for every returned row
ReturnedFqns(fqns, items, spec_id) ==
    LET names == {items[i].name : i \in 1..Len(items)}
    IN  [n \in DOMAIN fqns \cup names |->
            IF n \in names THEN generate_fqn(spec_id, n) ELSE fqns[n]]

----------------------------------------------------------------------------
(* populate_neo4j: the field writes (lines 465-499) *)

STR_string == <<"s","t","r","i","n","g">>

FieldRow(entity_fqn, field_data) ==
    [entity_fqn        |-> entity_fqn,
     field_name        |-> GetOr(field_data.name, PyStr(<<>>)),
     field_type        |-> GetOr(field_data.type, PyStr(STR_string)),
     field_required    |-> GetOr(field_data.required, PyFalse),
     field_description |-> Get(field_data.description),
     field_default     |-> Get(field_data.default)]

\* entity_fqns.get(entity_name) is truthy
HasFqn(fqns, name) == name \in DOMAIN fqns /\ fqns[name] # <<>>

\* Building fields_list raises on a null entity, property list or property.
FieldsRaise(data, fqns) ==
    \E i \in 1..Len(Entities(data)) :
        LET ent == Entities(data)[i]
        IN  /\ HasFqn(fqns, ent.name)
            /\ \/ ent.data.t # "dict"
               \/ ent.data.properties.t = "none"
               \/ /\ ent.data.properties.t = "list"
                  /\ \E j \in 1..Len(ent.data.properties.items) :
                        ent.data.properties.items[j].t # "dict"

EntityFieldRows(ent, fqns) ==
    IF HasFqn(fqns, ent.name) /\ ent.data.t = "dict" /\ ent.data.properties.t = "list"
    THEN [j \in 1..Len(ent.data.properties.items) |->
            FieldRow(fqns[ent.name], ent.data.properties.items[j])]
    ELSE <<>>

FieldsList(data, fqns) ==
    Concat([i \in 1..Len(Entities(data)) |-> EntityFieldRows(Entities(data)[i], fqns)])

\* entity_fqn + '.' + name is null for a null name, and MERGE rejects a null key:
\* the statement fails and writes nothing.
FieldsQueryFails(rows) == \E i \in 1..Len(rows) : ~IsStr(rows[i].field_name)

\* The field name appended to the entity fqn without the dot
FieldFqn_NoDot(row) == row.entity_fqn \o row.field_name.s

FieldFqn(row) == row.entity_fqn \o <<".">> \o row.field_name.s

FieldProps(row) ==
    [fqn          |-> FieldFqn(row),
     name         |-> row.field_name,
     type         |-> row.field_type,
     required     |-> row.field_required,
     entityFqn    |-> row.entity_fqn,
     description  |-> row.field_description,
     defaultValue |-> row.field_default]

\* MERGE (field:Field {fqn: field_fqn}) SET ..., row by row
RECURSIVE WriteFieldNodes(_, _)
WriteFieldNodes(N, rows) ==
    IF rows = <<>> THEN N
    ELSE WriteFieldNodes(MergeSet(N, <<"Field", FieldFqn(Head(rows))>>, FieldProps(Head(rows))),
                         Tail(rows))

\* MATCH (e) WHERE e.fqn = entity_fqn  MERGE (e)-[:HAS_FIELD]->(field): the MATCH
\* reads the graph as the MERGE clause left it for all rows.
HasFieldEdges(N, rows) ==
    UNION { {<<e, "HAS_FIELD", <<"Field", FieldFqn(rows[i])>>>> :
                e \in MatchFqn(N, rows[i].entity_fqn)} : i \in 1..Len(rows) }

MergeKeepAll(E, ids, props) ==
    [x \in DOMAIN E \cup ids |-> IF x \in DOMAIN E THEN E[x] ELSE props]

WriteFieldEdges(N, E, rows) == MergeKeepAll(E, HasFieldEdges(N, rows), NoProps)

----------------------------------------------------------------------------
(* populate_neo4j: the relationship writes (lines 502-576) *)

STR_relates_to == <<"r","e","l","a","t","e","s","_","t","o">>

Relationships(data) ==
    IF data.relationships.t = "list" THEN data.relationships.items ELSE <<>>

\* entity_fqns.get(x) for a hashable Python value x: the fqn, or <<>> for None
LookupFqn(fqns, x) == IF IsStr(x) /\ x.s \in DOMAIN fqns THEN fqns[x.s] ELSE <<>>

BothEndsGiven(rel) == Truthy(Get(rel.from)) /\ Truthy(Get(rel.to))

\* Building relationships_list raises on a null list or relationship (no .get) and on
\* an unhashable endpoint (entity_fqns.get hashes it).
RelationshipsRaise(data) ==
    \/ data.relationships.t = "none"
    \/ \E i \in 1..Len(Relationships(data)) :
          LET rel == Relationships(data)[i]
          IN  \/ rel.t # "dict"
              \/ BothEndsGiven(rel) /\ (~Hashable(rel.from) \/ ~Hashable(rel.to))

\* `if from_fqn and to_fqn`
Resolves(rel, fqns) ==
    /\ rel.t = "dict"
    /\ BothEndsGiven(rel)
    /\ LookupFqn(fqns, rel.from) # <<>>
    /\ LookupFqn(fqns, rel.to) # <<>>

RelRow(rel, fqns) ==
    [from_fqn          |-> LookupFqn(fqns, rel.from),
     to_fqn            |-> LookupFqn(fqns, rel.to),
     rel_type          |-> GetOr(rel.type, PyStr(STR_relates_to)),
     from_cardinality  |-> PyOr(Get(rel.fromCardinality), Get(rel.cardinality)),
     to_cardinality    |-> PyOr(Get(rel.toCardinality), Get(rel.cardinality)),
     direction         |-> GetOr(rel.direction, STR_out),
     role              |-> Get(rel.role),
     name              |-> Get(rel.name),
     relationship_type |-> Get(rel.relationshipType),
     order             |-> Get(rel.order),
     is_containment    |-> GetOr(rel.isContainment, PyFalse),
     is_inheritance    |-> GetOr(rel.isInheritance, PyFalse),
     is_dashed         |-> GetOr(rel.isDashed, PyFalse)]

RelationshipsList(data, fqns) ==
    LET kept == SelectSeq(Relationships(data), LAMBDA rel : Resolves(rel, fqns))
    IN  [i \in 1..Len(kept) |-> RelRow(kept[i], fqns)]

\* CASE rel.direction WHEN 'in' THEN false WHEN 'bidirectional' THEN true ELSE true END
create_out(row) == row.direction # STR_in

\* CASE rel.direction WHEN 'out' THEN false WHEN 'bidirectional' THEN true ELSE false END
create_in(row) == row.direction = STR_bidirectional

OutProps(row) ==
    [type             |-> row.rel_type,
     direction        |-> STR_out,
     fromCardinality  |-> row.from_cardinality,
     toCardinality    |-> row.to_cardinality,
     role             |-> row.role,
     name             |-> row.name,
     relationshipType |-> row.relationship_type,
     order            |-> row.order,
     isContainment    |-> row.is_containment,
     isInheritance    |-> row.is_inheritance,
     isDashed         |-> row.is_dashed]

InProps(row) ==
    [type             |-> row.rel_type,
     direction        |-> STR_in,
     fromCardinality  |-> row.to_cardinality,
     toCardinality    |-> row.from_cardinality,
     role             |-> row.role,
     name             |-> row.name,
     relationshipType |-> row.relationship_type,
     order            |-> row.order,
     isContainment    |-> row.is_containment,
     isInheritance    |-> row.is_inheritance,
     isDashed         |-> row.is_dashed]

\* The edges MERGE (from)-[r:RELATES_TO]->(to) touches for one row: one per pair of
\* nodes the two MATCH clauses found
OutEdges(N, row) ==
    IF create_out(row)
    THEN {<<f, "RELATES_TO", t>> : f \in MatchFqn(N, row.from_fqn), t \in MatchFqn(N, row.to_fqn)}
    ELSE {}

\* The edges MERGE (to)-[r:RELATES_TO]->(from) touches for one row
InEdges(N, row) ==
    IF create_in(row)
    THEN {<<t, "RELATES_TO", f>> : f \in MatchFqn(N, row.from_fqn), t \in MatchFqn(N, row.to_fqn)}
    ELSE {}

MergeSetAll(E, ids, props) ==
    [x \in DOMAIN E \cup ids |-> IF x \in ids THEN props ELSE E[x]]

\* The first FOREACH, over all rows in order
RECURSIVE WriteOutEdges(_, _, _)
WriteOutEdges(N, E, rows) ==
    IF rows = <<>> THEN E
    ELSE WriteOutEdges(N, MergeSetAll(E, OutEdges(N, Head(rows)), OutProps(Head(rows))),
                       Tail(rows))

\* The second FOREACH, over all rows in order
RECURSIVE WriteInEdges(_, _, _)
WriteInEdges(N, E, rows) ==
    IF rows = <<>> THEN E
    ELSE WriteInEdges(N, MergeSetAll(E, InEdges(N, Head(rows)), InProps(Head(rows))),
                      Tail(rows))

\* The clauses of one statement apply in turn, each to every row.
WriteRelationships(N, E, rows) == WriteInEdges(N, WriteOutEdges(N, E, rows), rows)

\* What each row's two MERGE clauses wrote: <<edge, properties>> pairs
WrittenBy(N, row) ==
    {<<e, OutProps(row)>> : e \in OutEdges(N, row)}
    \cup {<<e, InProps(row)>> : e \in InEdges(N, row)}

----------------------------------------------------------------------------
(* populate_neo4j: the containment links (lines 579-584) *)

ContainmentEdges(N, spec_id, diagram_id) ==
    {<<sb, "CONTAINS_ENTITY", e>> :
        sb \in MatchSchemaBlock(N, diagram_id), e \in MatchSpecId(N, spec_id)}

LinkContainment(N, E, spec_id, diagram_id) ==
    MergeKeepAll(E, ContainmentEdges(N, spec_id, diagram_id), NoProps)

----------------------------------------------------------------------------
(* Document constructors and the documents the runs draw from *)

Meta(source, specId, diagramId, extracted_at) ==
    [source |-> source, specId |-> specId, diagramId |-> diagramId,
     title |-> PyAbsent, version |-> PyAbsent, extracted_at |-> extracted_at]

NoProperties == [t |-> "absent", items |-> <<>>]

Properties(fields) == [t |-> "list", items |-> fields]

Field(name, type) ==
    [t |-> "dict", name |-> name, type |-> type, required |-> PyAbsent,
     description |-> PyAbsent, default |-> PyAbsent]

Ent(name, kind, properties) ==
    [name |-> name,
     data |-> [t |-> "dict", kind |-> kind, label |-> PyAbsent, properties |-> properties]]

NullEnt(name) ==
    [name |-> name,
     data |-> [t |-> "none", kind |-> PyAbsent, label |-> PyAbsent, properties |-> NoProperties]]

Rel(from, to, direction, fromCardinality, toCardinality, cardinality) ==
    [t |-> "dict", from |-> from, to |-> to, type |-> PyAbsent,
     fromCardinality |-> fromCardinality, toCardinality |-> toCardinality,
     cardinality |-> cardinality, direction |-> direction,
     role |-> PyAbsent, name |-> PyAbsent, relationshipType |-> PyAbsent,
     order |-> PyAbsent, isContainment |-> PyAbsent, isInheritance |-> PyAbsent,
     isDashed |-> PyAbsent]

Doc(meta, ents, rels) ==
    [meta |-> meta,
     entities |-> [t |-> "dict", items |-> ents],
     relationships |-> [t |-> "list", items |-> rels]]

EmptyDoc == Doc(Meta(PyAbsent, PyAbsent, PyAbsent, PyAbsent), <<>>, <<>>)

NAME_X    == <<"X">>
NAME_Y    == <<"Y">>
NAME_Z    == <<"Z">>
NAME_XRef == <<"X","R","e","f">>
NAME_X_f  == <<"X",".","f">>
FIELD_f   == <<"f">>

STR_Hacked == PyStr(<<"H","a","c","k","e","d">>)

SRC_tmf1_p1 == <<"t","m","f","1","/","p","1",".","p","n","g">>
SPEC_tmf1   == <<"t","m","f","1">>
SPEC_tmf2   == <<"t","m","f","2">>
DIAG_p2     == <<"p","2">>
TIME_given  == <<"2","0","2","4">>

CARD_1    == PyStr(<<"1">>)
CARD_0_1  == PyStr(<<"0",".",".","1">>)
CARD_star == PyStr(<<"*">>)
CARD_many == PyStr(<<"m","a","n","y">>)

\* spec tmf1 and diagram p1, both derived from the source path
MetaPath == Meta(PyStr(SRC_tmf1_p1), PyAbsent, PyAbsent, PyAbsent)
\* spec tmf2 by override, diagram p1 from the path
MetaSpec2 == Meta(PyStr(SRC_tmf1_p1), PyStr(SPEC_tmf2), PyAbsent, PyAbsent)
\* spec tmf1 and diagram p2 by override, with the extraction time given
MetaDiag2 == Meta(PyAbsent, PyStr(SPEC_tmf1), PyStr(DIAG_p2), PyStr(TIME_given))

Plain(name) == Ent(name, PyAbsent, NoProperties)

WithField(name) == Ent(name, PyAbsent, Properties(<<Field(PyStr(FIELD_f), PyAbsent)>>))

KindDocs ==
    {Doc(MetaPath, <<Ent(NAME_X, k, NoProperties), Plain(NAME_Y)>>, <<>>) :
        k \in {PyAbsent, STR_RefType, STR_SchemaBlock, STR_Hacked}}
    \cup {Doc(MetaPath, <<Ent(NAME_XRef, k, NoProperties)>>, <<>>) : k \in {PyAbsent, STR_Hacked}}

MetaDocs == {Doc(m, <<WithField(NAME_X)>>, <<>>) : m \in {MetaSpec2, MetaDiag2}}

CardChoices == {<<CARD_1, PyAbsent, CARD_star>>, <<PyAbsent, CARD_0_1, PyAbsent>>}

RelDocs ==
    {Doc(MetaPath, <<Plain(NAME_X), Plain(NAME_Y)>>,
         <<Rel(PyStr(NAME_X), PyStr(to), d, c[1], c[2], c[3])>>) :
        to \in {NAME_X, NAME_Y},
        d \in {PyAbsent, STR_out, STR_in, STR_bidirectional},
        c \in CardChoices}

\* an entity whose fqn equals the fqn of a field of another entity
FieldDocs ==
    {Doc(MetaPath, <<WithField(NAME_X), Plain(NAME_X_f), Plain(NAME_Y)>>,
         <<Rel(PyStr(NAME_X_f), PyStr(NAME_Y), d, PyAbsent, PyAbsent, PyAbsent)>>) :
        d \in {STR_out, STR_in}}

\* documents the validator rejects
BadDocs ==
    {Doc(MetaPath, <<Plain(NAME_X)>>,
         <<Rel(PyStr(NAME_X), PyStr(NAME_Z), STR_out, CARD_many, PyAbsent, PyAbsent)>>),
     Doc(MetaPath, <<NullEnt(NAME_X)>>, <<>>)}

Docs == KindDocs \cup MetaDocs \cup RelDocs \cup FieldDocs \cup BadDocs

----------------------------------------------------------------------------
(* One run of populate_neo4j, step by step.  Runs follow one another. *)

MaxRuns == 2

Terminal == {"DONE", "ABORT", "FAILED"}

NoRun ==
    [pc |-> "INIT", data |-> EmptyDoc, validate |-> TRUE, spec_id |-> <<>>,
     diagram_id |-> <<>>, entity_fqns |-> EmptyMap, conn |-> "none", written |-> <<>>]

\* api_builder.py line 13 and 45-47: the storage of an app built without data_generator
NoStorage == EmptyMap

\* No uuid issued, no request received, no handler suspended
NoApp == [uuids |-> 0, requests |-> 0, awaiting |-> {}]

\* The history before the first run: no previous run
NoLastRun ==
    [data |-> EmptyDoc, done |-> FALSE, nodes |-> EmptyMap, edges |-> EmptyMap,
     pc |-> "INIT", faults |-> {}, start |-> [nodes |-> EmptyMap, edges |-> EmptyMap]]

\* A version probe that answers 5.0
ServerNew == [probe_ok |-> TRUE, major |-> MIN_MAJOR + 1, minor |-> 0]

Init ==
    /\ arg = [f |-> "none"]
    /\ res = [f |-> "none"]
    /\ nodes = EmptyMap
    /\ edges = EmptyMap
    /\ schema = {}
    /\ server = ServerNew
    /\ clock = 0
    /\ run = NoRun
    /\ hist = [runs |-> 0,
               last |-> NoLastRun,
               start |-> [nodes |-> EmptyMap, edges |-> EmptyMap, schema |-> {}],
               faults |-> {}]
    /\ data_storage = NoStorage
    /\ app = NoApp

\* populate_neo4j is called with document d and the validate switch v
StartRun(D, maxRuns) ==
    /\ run.pc \in Terminal \cup {"INIT"}
    /\ hist.runs < maxRuns
    /\ \E d \in D, v \in BOOLEAN :
          run' = [NoRun EXCEPT !.pc = "VALIDATE", !.data = d, !.validate = v]
    /\ hist' = [runs |-> hist.runs + 1,
                last |-> [data |-> run.data, done |-> run.pc = "DONE",
                          nodes |-> nodes, edges |-> edges,
                          pc |-> run.pc, faults |-> hist.faults,
                          start |-> [nodes |-> hist.start.nodes, edges |-> hist.start.edges]],
                start |-> [nodes |-> nodes, edges |-> edges, schema |-> schema],
                faults |-> {}]
    /\ UNCHANGED <<data_storage, app, arg, res, nodes, edges, schema, server, clock>>

\* The exception escapes without the driver being closed
Fail_LeaveOpen == [run EXCEPT !.pc = "FAILED"]

\* An exception escapes after the driver was created: finally closes it
Fail == [run EXCEPT !.pc = "FAILED", !.conn = "closed"]

\* The driver is created before the document is validated
Validate_DriverFirst ==
    /\ run.pc = "VALIDATE"
    /\ LET r == validate_extracted_data(run.data)
       IN  run' = IF run.validate /\ (r.raised \/ r.errors # <<>>)
                  THEN [run EXCEPT !.pc = "ABORT", !.conn = "closed"]
                  ELSE [run EXCEPT !.pc = "ENSURE_SCHEMA", !.conn = "open"]
    /\ UNCHANGED <<data_storage, app, arg, res, nodes, edges, schema, server, clock, hist>>

\* lines 385-390: validation, then GraphDatabase.driver(...)
Validate ==
    /\ run.pc = "VALIDATE"
    /\ LET r == validate_extracted_data(run.data)
       IN  run' = IF run.validate /\ (r.raised \/ r.errors # <<>>)
                  THEN [run EXCEPT !.pc = "ABORT"]
                  ELSE [run EXCEPT !.pc = "ENSURE_SCHEMA", !.conn = "open"]
    /\ UNCHANGED <<data_storage, app, arg, res, nodes, edges, schema, server, clock, hist>>

\* The schema block is written in the declaration step
EnsureSchema_WritesSchemaBlock ==
    /\ run.pc = "ENSURE_SCHEMA"
    /\ schema' = create_stable_indexes(create_stable_constraints(schema), server)
    /\ nodes' = create_schema_block(nodes, run.data, clock)
    /\ run' = [run EXCEPT !.pc = "WRITE_SCHEMA_BLOCK"]
    /\ UNCHANGED <<data_storage, app, arg, res, edges, server, clock, hist>>

\* lines 394-398, for each value of the two switches
EnsureSchema ==
    /\ run.pc = "ENSURE_SCHEMA"
    /\ \E create_constraints_flag \in BOOLEAN, create_indexes_flag \in BOOLEAN :
          LET s1 == IF create_constraints_flag THEN create_stable_constraints(schema)
                    ELSE schema
          IN  schema' = IF create_indexes_flag THEN create_stable_indexes(s1, server) ELSE s1
    /\ run' = [run EXCEPT !.pc = "WRITE_SCHEMA_BLOCK"]
    /\ UNCHANGED <<data_storage, app, arg, res, nodes, edges, server, clock, hist>>

\* line 401
WriteSchemaBlock ==
    /\ run.pc = "WRITE_SCHEMA_BLOCK"
    /\ nodes' = create_schema_block(nodes, run.data, clock)
    /\ clock' = clock + 1
    /\ run' = [run EXCEPT !.pc = "WRITE_ENTITIES",
                          !.spec_id = SchemaBlockIds(run.data)[1],
                          !.diagram_id = SchemaBlockIds(run.data)[2]]
    /\ UNCHANGED <<data_storage, app, arg, res, edges, schema, server, hist>>

\* lines 408-444: the partition loop and the Entity statement
WriteEntitiesStep ==
    /\ run.pc = "WRITE_ENTITIES"
    /\ IF run.data.entities.t = "absent"
       THEN /\ run' = [run EXCEPT !.pc = "WRITE_RELATIONSHIPS"]
            /\ UNCHANGED nodes
       ELSE IF PartitionRaises(run.data)
       THEN /\ run' = Fail
            /\ UNCHANGED nodes
       ELSE /\ nodes' = WriteEntities(nodes, run.data, run.spec_id)
            /\ run' = [run EXCEPT !.pc = "WRITE_REFTYPES",
                          !.entity_fqns = ReturnedFqns(run.entity_fqns,
                                              PartitionItems(run.data, FALSE), run.spec_id)]
    /\ UNCHANGED <<data_storage, app, arg, res, edges, schema, server, clock, hist>>

\* lines 447-462: the RefType statement
WriteRefTypesStep ==
    /\ run.pc = "WRITE_REFTYPES"
    /\ nodes' = WriteRefTypes(nodes, run.data, run.spec_id)
    /\ run' = [run EXCEPT !.pc = "WRITE_FIELDS",
                  !.entity_fqns = ReturnedFqns(run.entity_fqns,
                                      PartitionItems(run.data, TRUE), run.spec_id)]
    /\ UNCHANGED <<data_storage, app, arg, res, edges, schema, server, clock, hist>>

\* lines 465-499
WriteFieldsStep ==
    /\ run.pc = "WRITE_FIELDS"
    /\ LET rows == FieldsList(run.data, run.entity_fqns)
       IN  IF FieldsRaise(run.data, run.entity_fqns) \/ FieldsQueryFails(rows)
           THEN /\ run' = Fail
                /\ UNCHANGED <<nodes, edges>>
           ELSE /\ nodes' = WriteFieldNodes(nodes, rows)
                /\ edges' = WriteFieldEdges(WriteFieldNodes(nodes, rows), edges, rows)
                /\ run' = [run EXCEPT !.pc = "WRITE_RELATIONSHIPS"]
    /\ UNCHANGED <<data_storage, app, arg, res, schema, server, clock, hist>>

\* lines 502-576
WriteRelationshipsStep ==
    /\ run.pc = "WRITE_RELATIONSHIPS"
    /\ IF RelationshipsRaise(run.data)
       THEN /\ run' = Fail
            /\ UNCHANGED edges
       ELSE LET kept == SelectSeq(Relationships(run.data),
                                  LAMBDA rel : Resolves(rel, run.entity_fqns))
                rows == RelationshipsList(run.data, run.entity_fqns)
            IN  /\ edges' = WriteRelationships(nodes, edges, rows)
                /\ run' = [run EXCEPT !.pc = "LINK_CONTAINMENT",
                              !.written = [i \in 1..Len(rows) |->
                                             [rel |-> kept[i],
                                              writes |-> WrittenBy(nodes, rows[i])]]]
    /\ UNCHANGED <<data_storage, app, arg, res, nodes, schema, server, clock, hist>>

\* lines 579-589
LinkContainmentStep ==
    /\ run.pc = "LINK_CONTAINMENT"
    /\ edges' = LinkContainment(nodes, edges, run.spec_id, run.diagram_id)
    /\ run' = [run EXCEPT !.pc = "DONE", !.conn = "closed"]
    /\ UNCHANGED <<data_storage, app, arg, res, nodes, schema, server, clock, hist>>

StartAnyRun == StartRun(Docs, MaxRuns)

Next ==
    \/ StartAnyRun
    \/ Validate
    \/ EnsureSchema
    \/ WriteSchemaBlock
    \/ WriteEntitiesStep
    \/ WriteRefTypesStep
    \/ WriteFieldsStep
    \/ WriteRelationshipsStep
    \/ LinkContainmentStep

Spec == Init /\ [][Next]_vars

----------------------------------------------------------------------------
(* Repeated runs: up to three runs in a row over a few documents that run to   *)
(* completion, so that a document is also rerun on a store other documents     *)
(* have filled.                                                                *)

MaxRepeatRuns == 3

RepeatDocs ==
    {Doc(MetaPath, <<Ent(NAME_X, k, NoProperties), Plain(NAME_Y)>>, <<>>) :
        k \in {PyAbsent, STR_RefType}}
    \cup {Doc(MetaPath, <<Plain(NAME_X), Plain(NAME_Y)>>,
              <<Rel(PyStr(NAME_X), PyStr(NAME_Y), STR_bidirectional, CARD_1, PyAbsent, CARD_star),
                Rel(PyStr(NAME_Y), PyStr(NAME_X), STR_out, PyAbsent, CARD_0_1, PyAbsent)>>)}
    \cup {Doc(MetaDiag2, <<WithField(NAME_X)>>,
              <<Rel(PyStr(NAME_X), PyStr(NAME_X), STR_in, PyAbsent, PyAbsent, PyAbsent)>>)}
    \cup FieldDocs

StartRepeatRun == StartRun(RepeatDocs, MaxRepeatRuns)

NextRepeat ==
    \/ StartRepeatRun
    \/ Validate
    \/ EnsureSchema
    \/ WriteSchemaBlock
    \/ WriteEntitiesStep
    \/ WriteRefTypesStep
    \/ WriteFieldsStep
    \/ WriteRelationshipsStep
    \/ LinkContainmentStep

SpecRepeat == Init /\ [][NextRepeat]_vars

----------------------------------------------------------------------------
(* validate_cardinality on every short string over the grammar's alphabet  *)

MaxCardLen == 5

CardAlphabet == {"0", "1", ".", "*", "n", "\n"}

RECURSIVE StringsOfLen(_, _)
StringsOfLen(A, k) ==
    IF k = 0 THEN {<<>>} ELSE {Append(q, c) : q \in StringsOfLen(A, k - 1), c \in A}

StringsUpTo(A, n) == UNION {StringsOfLen(A, k) : k \in 0..n}

CardInputs ==
    {PyStr(q) : q \in StringsUpTo(CardAlphabet, MaxCardLen)}
    \cup {PyStr(<<"3",".",".","7">>), PyStr(<<"2",".",".","*">>), CARD_many,
          PyStr(<<"0",".",".","1",".",".","2">>), PyStr(<<"m",".",".","n">>),
          PyNone, PyInt(<<"1">>), PyTrue, PyList}

PureInit(a, r) ==
    /\ arg = a
    /\ res = r
    /\ nodes = EmptyMap
    /\ edges = EmptyMap
    /\ schema = {}
    /\ server = ServerNew
    /\ clock = 0
    /\ run = NoRun
    /\ hist = [runs |-> 0,
               last |-> NoLastRun,
               start |-> [nodes |-> EmptyMap, edges |-> EmptyMap, schema |-> {}],
               faults |-> {}]
    /\ data_storage = NoStorage
    /\ app = NoApp

NoCall == [f |-> "none"]

InitPure == PureInit(NoCall, NoCall)

CallValidateCardinality ==
    /\ arg = NoCall
    /\ \E card \in CardInputs :
          /\ arg' = [f |-> "validate_cardinality", card |-> card]
          /\ res' = [f |-> "validate_cardinality", value |-> validate_cardinality(card)]
    /\ UNCHANGED <<data_storage, app, nodes, edges, schema, server, clock, run, hist>>

SpecCard == InitPure /\ [][CallValidateCardinality]_vars

----------------------------------------------------------------------------
(* generate_fqn on two (specId, short name) pairs *)

MaxIdLen == 2

IdAlphabet == {"a", "#"}

IdInputs == StringsUpTo(IdAlphabet, MaxIdLen)

CallGenerateFqn ==
    /\ arg = NoCall
    /\ \E s1 \in IdInputs, n1 \in IdInputs, s2 \in IdInputs, n2 \in IdInputs :
          /\ arg' = [f |-> "generate_fqn", spec1 |-> s1, name1 |-> n1, spec2 |-> s2, name2 |-> n2]
          /\ res' = [f |-> "generate_fqn", fqn1 |-> generate_fqn(s1, n1),
                      fqn2 |-> generate_fqn(s2, n2)]
    /\ UNCHANGED <<data_storage, app, nodes, edges, schema, server, clock, run, hist>>

SpecFqn == InitPure /\ [][CallGenerateFqn]_vars

----------------------------------------------------------------------------
(* Properties of generate_fqn (SpecFqn) *)

FqnCalled == arg.f = "generate_fqn"

HasHash(s) == \E k \in 1..Len(s) : s[k] = "#"

\* C3 as stated: equal FQNs imply equal short names, for any two (specId, short name)
\* pairs; and with equal specIds, different short names give different FQNs.
C3_FqnCollisionFree ==
    FqnCalled =>
        /\ res.fqn1 = res.fqn2 => arg.name1 = arg.name2
        /\ arg.spec1 = arg.spec2 /\ arg.name1 # arg.name2 => res.fqn1 # res.fqn2

\* C3 amended: equal FQNs imply equal short names whenever neither specId, or neither
\* short name, contains '#'; and with equal specIds, different short names always give
\* different FQNs.
C3_FqnCollisionFreeWithoutHash ==
    FqnCalled =>
        /\ /\ res.fqn1 = res.fqn2
           /\ \/ ~HasHash(arg.spec1) /\ ~HasHash(arg.spec2)
              \/ ~HasHash(arg.name1) /\ ~HasHash(arg.name2)
           => arg.name1 = arg.name2
        /\ arg.spec1 = arg.spec2 /\ arg.name1 # arg.name2 => res.fqn1 # res.fqn2

\* Two pairs with equal FQNs, different specIds and a '#' inside a specId
C3_Witness ==
    /\ FqnCalled
    /\ res.fqn1 = res.fqn2
    /\ HasHash(arg.spec1)
    /\ ~HasHash(arg.name1) /\ ~HasHash(arg.name2)
    /\ arg.name1 # <<>>

----------------------------------------------------------------------------
(* Properties of validate_cardinality (SpecCard) *)

CardCalled == arg.f = "validate_cardinality"

\* digits '..' digits, or digits '..*': the whole string, nothing before or after
InNumericGrammar(q) ==
    \E i \in 1..Len(q) :
        /\ IsDigits(Slice(q, 1, i))
        /\ Slice(q, i + 1, i + 2) = <<".", ".">>
        /\ \/ Slice(q, i + 3, Len(q) + 1) = <<"*">>
           \/ IsDigits(Slice(q, i + 3, Len(q) + 1))

GrammarAccepts(card) ==
    \/ card.t = "none"
    \/ IsStr(card) /\ (card.s \in VALID_CARDINALITY_PATTERNS \/ InNumericGrammar(card.s))

\* C10 as stated: validate_cardinality returns no error exactly for null and for the
\* strings of the literal set or of the numeric-range grammar, and an error for every
\* other value.
C10_CardinalityGrammar ==
    CardCalled => ((res.value = "ok") <=> GrammarAccepts(arg.card))

\* Apart from a final newline, the function and the grammar agree.
CardinalityGrammarUpToNewline ==
    CardCalled /\ ~(IsStr(arg.card) /\ EndsWith(arg.card.s, <<"\n">>))
        => ((res.value = "ok") <=> GrammarAccepts(arg.card))

----------------------------------------------------------------------------
(* Properties of repeated runs (SpecRepeat) *)

\* The run that just completed repeated the document of the completed run before it
RepeatedRun == run.pc = "DONE" /\ hist.last.done /\ hist.last.data = run.data

\* C1 as stated: two completed runs in succession on the identical document leave the
\* same nodes, edges and property values as the first run alone.
C1_Idempotent ==
    RepeatedRun => nodes = hist.last.nodes /\ edges = hist.last.edges

\* The nodes, without the extractedAt of the run's SchemaBlock when the document gives
\* no extracted_at
WithoutClockReading(N) ==
    IF run.data.meta.extracted_at.t # "absent" THEN N
    ELSE [n \in DOMAIN N |->
            IF n = <<"SchemaBlock", run.diagram_id>>
            THEN [N[n] EXCEPT !.extractedAt = PyNone]
            ELSE N[n]]

\* What does hold: the two runs leave the same nodes, edges and property values, except
\* the extractedAt of the document's SchemaBlock when the document's meta gives no
\* extracted_at.
IdempotentUpToClock ==
    RepeatedRun =>
        /\ WithoutClockReading(nodes) = WithoutClockReading(hist.last.nodes)
        /\ edges = hist.last.edges

----------------------------------------------------------------------------
(* Properties of population runs (Spec) *)

\* The nodes the entity statements write: every label but Field and SchemaBlock
EntityNodes == {n \in DOMAIN nodes : n[1] \notin {"Field", "SchemaBlock"}}

\* The nodes written for the entity with this short name in the current run's spec
EntityNodesOf(name) ==
    {n \in EntityNodes : nodes[n].fqn = generate_fqn(run.spec_id, name)}

\* C2 as stated: between runs, no two distinct Entity/RefType nodes of the store have
\* the same fqn.
C2_UniqueFqn ==
    run.pc \in {"INIT", "DONE"} =>
        \A a \in EntityNodes, b \in EntityNodes : nodes[a].fqn = nodes[b].fqn => a = b

\* What does hold: under one label no two nodes have the same fqn.
UniqueFqnPerLabel ==
    \A a \in EntityNodes, b \in EntityNodes :
        nodes[a].fqn = nodes[b].fqn /\ a[1] = b[1] => a = b

----------------------------------------------------------------------------

\* Both entity statements of the current run have been executed
EntitiesWritten ==
    run.pc \in {"WRITE_FIELDS", "WRITE_RELATIONSHIPS", "LINK_CONTAINMENT", "DONE"}

\* The entity declares a kind that is not in the allowlist
DeclaredOutside(ent) ==
    /\ ent.data.t = "dict"
    /\ ent.data.kind.t # "absent"
    /\ ent.data.kind \notin ALLOWED_KINDS

OutsideEntities ==
    {i \in 1..Len(Entities(run.data)) : DeclaredOutside(Entities(run.data)[i])}

\* The allowlist as node labels
AllowedLabels == {"Entity", "RefType", "SchemaBlock"}

\* Kind and label of every entity node are in the allowlist, and no entity node of the
\* current run holds a declared kind from outside it
AllowlistOnly ==
    /\ \A n \in EntityNodes : nodes[n].kind \in ALLOWED_KINDS /\ n[1] \in AllowedLabels
    /\ EntitiesWritten =>
          \A i \in OutsideEntities :
              \A n \in EntityNodesOf(Entities(run.data)[i].name) :
                  nodes[n].kind # Entities(run.data)[i].data.kind

\* C4 as stated: kind and label of every entity node are in the allowlist; a declared
\* kind outside the allowlist is never stored and the entity is stored with kind Entity.
C4_KindAllowlist ==
    /\ AllowlistOnly
    /\ EntitiesWritten =>
          \A i \in OutsideEntities :
              \E n \in EntityNodesOf(Entities(run.data)[i].name) : nodes[n].kind = STR_Entity

\* C4 amended: kind and label of every entity node are in the allowlist; a declared kind
\* outside the allowlist is never stored, and the entity is stored with kind RefType
\* when its short name ends in Ref or Reference and with kind Entity otherwise.
C4_KindAllowlistAfterSuffix ==
    /\ AllowlistOnly
    /\ EntitiesWritten =>
          \A i \in OutsideEntities :
              LET name == Entities(run.data)[i].name
                  kind == IF EndsWith(name, SUFFIX_Ref) \/ EndsWith(name, SUFFIX_Reference)
                          THEN STR_RefType ELSE STR_Entity
              IN  \E n \in EntityNodesOf(name) : nodes[n].kind = kind

\* A bypassed run completed on a document that declares an outside kind on a name
\* ending in Ref
C4_Witness ==
    /\ run.pc = "DONE"
    /\ ~run.validate
    /\ \E i \in OutsideEntities : EndsWith(Entities(run.data)[i].name, SUFFIX_Ref)

----------------------------------------------------------------------------
(* The relationship writes: run.written[i] holds relationship i of those whose  *)
(* endpoints resolved, with the <<edge, properties>> pairs its write persisted. *)

\* The edge goes from a node of the from-entity to a node of the to-entity
FromTo(e, rel) ==
    /\ e[2] = "RELATES_TO"
    /\ e[1] \in EntityNodesOf(rel.from.s)
    /\ e[3] \in EntityNodesOf(rel.to.s)

\* The edge goes from a node of the to-entity to a node of the from-entity
ToFrom(e, rel) ==
    /\ e[2] = "RELATES_TO"
    /\ e[1] \in EntityNodesOf(rel.to.s)
    /\ e[3] \in EntityNodesOf(rel.from.s)

\* The end's own cardinality if set, otherwise the legacy cardinality
CardinalityOrLegacy(rel, own) ==
    IF Get(own) # PyNone THEN own ELSE Get(rel.cardinality)

\* Each endpoint's fqn is the fqn of exactly one node of the store
EndpointsUnambiguous(rel) ==
    /\ Cardinality(MatchFqn(nodes, generate_fqn(run.spec_id, rel.from.s))) = 1
    /\ Cardinality(MatchFqn(nodes, generate_fqn(run.spec_id, rel.to.s))) = 1

\* One forward edge with the cardinalities as given
OneForwardEdge(w) ==
    \E x \in w.writes :
        /\ w.writes = {x}
        /\ FromTo(x[1], w.rel)
        /\ x[2].fromCardinality = CardinalityOrLegacy(w.rel, w.rel.fromCardinality)
        /\ x[2].toCardinality = CardinalityOrLegacy(w.rel, w.rel.toCardinality)

\* One reversed edge with the cardinalities swapped
OneReversedEdge(w) ==
    \E x \in w.writes :
        /\ w.writes = {x}
        /\ ToFrom(x[1], w.rel)
        /\ x[2].fromCardinality = CardinalityOrLegacy(w.rel, w.rel.toCardinality)
        /\ x[2].toCardinality = CardinalityOrLegacy(w.rel, w.rel.fromCardinality)

\* C5 as stated: the write of a resolved relationship with direction "out" or no
\* direction persists exactly one edge, from the from-entity to the to-entity, whose
\* cardinalities are the relationship's, each falling back to the legacy cardinality.
C5_OutOneForwardEdge ==
    \A i \in 1..Len(run.written) :
        GetOr(run.written[i].rel.direction, STR_out) = STR_out
            => OneForwardEdge(run.written[i])

\* What does hold: the same, for a relationship whose endpoint fqns each name one node.
OutOneForwardEdgeWhenUnambiguous ==
    \A i \in 1..Len(run.written) :
        /\ GetOr(run.written[i].rel.direction, STR_out) = STR_out
        /\ EndpointsUnambiguous(run.written[i].rel)
        => OneForwardEdge(run.written[i])

\* C6 as stated: the write of a resolved relationship with direction "in" persists
\* exactly one edge, from the to-entity to the from-entity, with the relationship's
\* fallback-resolved cardinalities swapped.
C6_InOneReversedEdge ==
    \A i \in 1..Len(run.written) :
        Get(run.written[i].rel.direction) = STR_in => OneReversedEdge(run.written[i])

\* What does hold: the write of a relationship with direction "in" persists no edge,
\* as neither create_out nor create_in is true for it.
InWritesNoEdge ==
    \A i \in 1..Len(run.written) :
        Get(run.written[i].rel.direction) = STR_in => run.written[i].writes = {}

\* The relationship statement of the current run has been executed
RelationshipsWritten == run.pc \in {"LINK_CONTAINMENT", "DONE"}

\* Two distinct edges of the store, one forward tagged out and one reversed tagged in
TwoOppositeEdges(rel) ==
    \E e1 \in DOMAIN edges, e2 \in DOMAIN edges :
        /\ e1 # e2
        /\ FromTo(e1, rel) /\ edges[e1].direction = STR_out
        /\ ToFrom(e2, rel) /\ edges[e2].direction = STR_in

\* C7 as stated: after the relationship write, the store holds for every resolved
\* "bidirectional" relationship two distinct edges, from->to tagged out and to->from
\* tagged in, whether or not from and to differ.
C7_BidirectionalTwoEdges ==
    RelationshipsWritten =>
        \A i \in 1..Len(run.written) :
            Get(run.written[i].rel.direction) = STR_bidirectional
                => TwoOppositeEdges(run.written[i].rel)

\* What does hold: the same, for a document's only relationship when its two ends
\* differ.
BidirectionalTwoEdgesWhenAlone ==
    RelationshipsWritten /\ Len(run.written) = 1 =>
        LET rel == run.written[1].rel
        IN  Get(rel.direction) = STR_bidirectional /\ rel.from # rel.to
                => TwoOppositeEdges(rel)

----------------------------------------------------------------------------

\* validate_extracted_data returns at least one error for the run's document
Rejected ==
    /\ ~validate_extracted_data(run.data).raised
    /\ validate_extracted_data(run.data).errors # <<>>

\* Nothing was written since the run began
StoreUntouched ==
    /\ nodes = hist.start.nodes
    /\ edges = hist.start.edges
    /\ schema = hist.start.schema

\* C8: with validation enabled and at least one error returned, the run ends in the
\* raise, before a connection is opened and with the store as the run found it; with
\* validation bypassed the run goes on to open the connection and to the write steps.
C8_ValidationGate ==
    /\ run.pc # "INIT" /\ run.validate /\ Rejected
          => /\ run.pc \in {"VALIDATE", "ABORT"}
             /\ run.conn = "none"
             /\ StoreUntouched
    /\ run.pc \notin {"INIT", "VALIDATE"} /\ ~run.validate
          => /\ run.pc # "ABORT"
             /\ run.conn # "none"

\* A validating run has refused a document with errors, on a store that an earlier
\* run has filled
C8_Witness ==
    /\ run.pc = "ABORT"
    /\ run.validate
    /\ Rejected
    /\ DOMAIN nodes # {}

----------------------------------------------------------------------------
(* validate_extracted_data on engineered documents: a valid document into which *)
(* defects are put one at a time, each in a place no earlier defect touched.    *)

MaxDefects == 3

STR_sideways == PyStr(<<"s","i","d","e","w","a","y","s">>)

CARD_0_1_2     == PyStr(<<"0",".",".","1",".",".","2">>)
CARD_1_5_NL    == PyStr(<<"1",".",".","5","\n">>)
CARD_0_star    == PyStr(<<"0",".",".","*">>)

\* entities X (one field f: string) and Y, one relationship X -> Y
SoundDoc ==
    Doc(MetaPath,
        <<Ent(NAME_X, PyAbsent, Properties(<<Field(PyStr(FIELD_f), PyStr(STR_string))>>)),
          Ent(NAME_Y, STR_Entity, NoProperties)>>,
        <<Rel(PyStr(NAME_X), PyStr(NAME_Y), STR_out, CARD_1, CARD_0_star, PyAbsent)>>)

EntityPlaces == {"kind1", "kind2", "field_name", "field_type"}

RelationshipPlaces ==
    {"from", "to", "fromCardinality", "toCardinality", "cardinality", "direction"}

BadKinds == {STR_Hacked, PyNone, PyList}

BadFieldTypes == {PyNone, PyInt(<<"1">>)}

BadEndpoints == {PyStr(NAME_Z), PyAbsent, PyNone}

BadCardinalities == {CARD_many, CARD_0_1_2, CARD_1_5_NL, PyInt(<<"5">>)}

BadDirections == {STR_sideways, PyNone}

Validated(data, k, touched) ==
    /\ arg' = [f |-> "validate_extracted_data", data |-> data, k |-> k, touched |-> touched]
    /\ res' = [f |-> "validate_extracted_data", value |-> validate_extracted_data(data)]
    /\ UNCHANGED <<data_storage, app, nodes, edges, schema, server, clock, run, hist>>

InitValidate ==
    PureInit([f |-> "validate_extracted_data", data |-> SoundDoc, k |-> 0, touched |-> {}],
             [f |-> "validate_extracted_data", value |-> validate_extracted_data(SoundDoc)])

\* A place of the document that no defect has touched, while more defects may be put
Free(place) == arg.k < MaxDefects /\ place \notin arg.touched

BreakKind ==
    \E i \in 1..2, kind \in BadKinds :
        LET place == IF i = 1 THEN "kind1" ELSE "kind2"
        IN  /\ Free(place)
            /\ Validated([arg.data EXCEPT !.entities.items[i].data.kind = kind],
                         arg.k + 1, arg.touched \cup {place})

BreakFieldName ==
    /\ Free("field_name")
    /\ Validated([arg.data EXCEPT !.entities.items[1].data.properties.items[1].name = PyAbsent],
                 arg.k + 1, arg.touched \cup {"field_name"})

BreakFieldType ==
    /\ Free("field_type")
    /\ \E type \in BadFieldTypes :
          Validated([arg.data EXCEPT !.entities.items[1].data.properties.items[1].type = type],
                    arg.k + 1, arg.touched \cup {"field_type"})

BreakEndpoint ==
    \E end \in BadEndpoints :
        \/ /\ Free("from")
           /\ Validated([arg.data EXCEPT !.relationships.items[1].from = end],
                        arg.k + 1, arg.touched \cup {"from"})
        \/ /\ Free("to")
           /\ Validated([arg.data EXCEPT !.relationships.items[1].to = end],
                        arg.k + 1, arg.touched \cup {"to"})

BreakCardinality ==
    \E card \in BadCardinalities :
        \/ /\ Free("fromCardinality")
           /\ Validated([arg.data EXCEPT !.relationships.items[1].fromCardinality = card],
                        arg.k + 1, arg.touched \cup {"fromCardinality"})
        \/ /\ Free("toCardinality")
           /\ Validated([arg.data EXCEPT !.relationships.items[1].toCardinality = card],
                        arg.k + 1, arg.touched \cup {"toCardinality"})
        \/ /\ Free("cardinality")
           /\ Validated([arg.data EXCEPT !.relationships.items[1].cardinality = card],
                        arg.k + 1, arg.touched \cup {"cardinality"})

BreakDirection ==
    /\ Free("direction")
    /\ \E direction \in BadDirections :
          Validated([arg.data EXCEPT !.relationships.items[1].direction = direction],
                    arg.k + 1, arg.touched \cup {"direction"})

\* The relationships key dropped or no list, when no relationship holds a defect
BreakRelationships ==
    /\ Free("relationships")
    /\ arg.touched \cap RelationshipPlaces = {}
    /\ \E t \in {"absent", "none"} :
          Validated([arg.data EXCEPT !.relationships = [t |-> t, items |-> <<>>]],
                    arg.k + 1, arg.touched \cup RelationshipPlaces \cup {"relationships"})

\* The entities key dropped or no dictionary, when no entity holds a defect and no
\* relationship is left to name an entity
BreakEntities ==
    /\ Free("entities")
    /\ "relationships" \in arg.touched
    /\ arg.touched \cap EntityPlaces = {}
    /\ \E t \in {"absent", "none"} :
          Validated([arg.data EXCEPT !.entities = [t |-> t, items |-> <<>>]],
                    arg.k + 1, arg.touched \cup EntityPlaces \cup {"entities"})

NextValidate ==
    \/ BreakKind
    \/ BreakFieldName
    \/ BreakFieldType
    \/ BreakEndpoint
    \/ BreakCardinality
    \/ BreakDirection
    \/ BreakRelationships
    \/ BreakEntities

SpecValidate == InitValidate /\ [][NextValidate]_vars

\* C9 as stated: on a document with k pairwise independent defects the validator
\* returns exactly k error descriptions, and none when k = 0.
C9_ExactlyKErrors ==
    arg.f = "validate_extracted_data" =>
        /\ ~res.value.raised
        /\ Len(res.value.errors) = arg.k

\* The cardinalities of the document's relationship
GivenCardinalities ==
    IF arg.data.relationships.t # "list" THEN {}
    ELSE {arg.data.relationships.items[1].fromCardinality,
          arg.data.relationships.items[1].toCardinality,
          arg.data.relationships.items[1].cardinality}

\* A kind that cannot be hashed
UnhashableKind ==
    /\ arg.data.entities.t = "dict"
    /\ \E i \in 1..Len(arg.data.entities.items) :
          ~Hashable(arg.data.entities.items[i].data.kind)

\* What does hold: exactly k errors unless a defect is a cardinality ending in a line
\* break or a kind that cannot be hashed.
ExactlyKErrorsOtherwise ==
    /\ arg.f = "validate_extracted_data"
    /\ CARD_1_5_NL \notin GivenCardinalities
    /\ ~UnhashableKind
    => /\ ~res.value.raised
       /\ Len(res.value.errors) = arg.k

\* With a cardinality ending in a line break among the k defects, and nothing that
\* raises, the validator returns fewer than k errors.
LineBreakCardinalityUncounted ==
    /\ arg.f = "validate_extracted_data"
    /\ CARD_1_5_NL \in GivenCardinalities
    /\ ~UnhashableKind
    => /\ ~res.value.raised
       /\ Len(res.value.errors) < arg.k

----------------------------------------------------------------------------
(* The end-to-end scenario: entities Order (one field id) and OrderRef, one      *)
(* relationship Order -> OrderRef, source path tmf622/page1.png.                 *)

MaxScenarioRuns == 2

NAME_Order    == <<"O","r","d","e","r">>
NAME_OrderRef == <<"O","r","d","e","r","R","e","f">>
FIELD_id      == <<"i","d">>
STR_has_ref   == PyStr(<<"h","a","s","_","r","e","f">>)
SRC_tmf622_page1 == <<"t","m","f","6","2","2","/","p","a","g","e","1",".","p","n","g">>
SPEC_tmf622   == <<"t","m","f","6","2","2">>
DIAG_page1    == <<"p","a","g","e","1">>

\* {name: id, type: string, required: true}
FieldId == [Field(PyStr(FIELD_id), PyStr(STR_string)) EXCEPT !.required = PyTrue]

\* {from: Order, to: OrderRef, type: has_ref, toCardinality: 0..1, direction: out}
RelHasRef ==
    [Rel(PyStr(NAME_Order), PyStr(NAME_OrderRef), STR_out, PyAbsent, CARD_0_1, PyAbsent)
        EXCEPT !.type = STR_has_ref]

\* An entity whose field list is under the key `fields`, which no statement reads
EntWithFields(name, fields) ==
    [name |-> name,
     data |-> [t |-> "dict", kind |-> PyAbsent, label |-> PyAbsent,
               properties |-> NoProperties, fields |-> Properties(fields)]]

MetaScenario == Meta(PyStr(SRC_tmf622_page1), PyAbsent, PyAbsent, PyAbsent)

\* The document with Order's field list under `fields`
ScenarioDocFields ==
    Doc(MetaScenario, <<EntWithFields(NAME_Order, <<FieldId>>), Plain(NAME_OrderRef)>>,
        <<RelHasRef>>)

\* The document with Order's field list under `properties`
ScenarioDocProperties ==
    Doc(MetaScenario,
        <<Ent(NAME_Order, PyAbsent, Properties(<<FieldId>>)), Plain(NAME_OrderRef)>>,
        <<RelHasRef>>)

STR_owns == PyStr(<<"o","w","n","s">>)

\* {from: Order, to: OrderRef, type: owns, toCardinality: *, direction: out}
RelOwns ==
    [Rel(PyStr(NAME_Order), PyStr(NAME_OrderRef), STR_out, PyAbsent, CARD_star, PyAbsent)
        EXCEPT !.type = STR_owns]

\* Two relationships Order -> OrderRef that differ in type
ScenarioDocTwoTypes ==
    Doc(MetaScenario, <<Plain(NAME_Order), Plain(NAME_OrderRef)>>, <<RelHasRef, RelOwns>>)

\* Each of the two relationships alone, for successive runs
ScenarioDocHasRef ==
    Doc(MetaScenario, <<Plain(NAME_Order), Plain(NAME_OrderRef)>>, <<RelHasRef>>)

ScenarioDocOwns ==
    Doc(MetaScenario, <<Plain(NAME_Order), Plain(NAME_OrderRef)>>, <<RelOwns>>)

ScenarioDocs ==
    {ScenarioDocFields, ScenarioDocProperties, ScenarioDocTwoTypes, ScenarioDocHasRef,
     ScenarioDocOwns}

StartScenarioRun == StartRun(ScenarioDocs, MaxScenarioRuns)

NextScenario ==
    \/ StartScenarioRun
    \/ Validate
    \/ EnsureSchema
    \/ WriteSchemaBlock
    \/ WriteEntitiesStep
    \/ WriteRefTypesStep
    \/ WriteFieldsStep
    \/ WriteRelationshipsStep
    \/ LinkContainmentStep

SpecScenario == Init /\ [][NextScenario]_vars

\* The run on document d has completed, and it began on an empty store
CompletedFromEmpty(d) ==
    /\ run.pc = "DONE"
    /\ run.data = d
    /\ hist.start.nodes = EmptyMap
    /\ hist.start.edges = EmptyMap

FQN_Order    == SPEC_tmf622 \o <<"#">> \o NAME_Order
FQN_OrderRef == SPEC_tmf622 \o <<"#">> \o NAME_OrderRef
FQN_Order_id == FQN_Order \o <<".">> \o FIELD_id

RelationshipEdges == {e \in DOMAIN edges : e[2] = "RELATES_TO"}

\* SchemaBlock page1, Entity tmf622#Order, RefType tmf622#OrderRef, Field
\* tmf622#Order.id, and one relationship edge, Order -> OrderRef with toCardinality 0..1
ScenarioOutcome ==
    /\ \E n \in DOMAIN nodes : n[1] = "SchemaBlock" /\ nodes[n].id = DIAG_page1
    /\ \E n \in DOMAIN nodes : n[1] = "Entity" /\ nodes[n].fqn = FQN_Order
    /\ \E n \in DOMAIN nodes : n[1] = "RefType" /\ nodes[n].fqn = FQN_OrderRef
    /\ \E n \in DOMAIN nodes : n[1] = "Field" /\ nodes[n].fqn = FQN_Order_id
    /\ \E e \in RelationshipEdges :
          /\ RelationshipEdges = {e}
          /\ e[1][1] = "Entity" /\ nodes[e[1]].fqn = FQN_Order
          /\ e[3][1] = "RefType" /\ nodes[e[3]].fqn = FQN_OrderRef
          /\ edges[e].toCardinality = CARD_0_1

\* C11 as stated: populating an empty store with the document whose entity Order lists
\* its field under `fields` yields SchemaBlock page1, Entity tmf622#Order, RefType
\* tmf622#OrderRef, Field tmf622#Order.id and exactly one edge Order -> OrderRef with
\* toCardinality 0..1.
C11_ScenarioFields == CompletedFromEmpty(ScenarioDocFields) => ScenarioOutcome

\* C11 amended: the same outcome for the document whose entity Order lists its field
\* under `properties`, the key the field write reads.
C11_ScenarioProperties == CompletedFromEmpty(ScenarioDocProperties) => ScenarioOutcome

C11_Witness == CompletedFromEmpty(ScenarioDocProperties) /\ run.validate

----------------------------------------------------------------------------
(* Two runs against one store.  Each statement a run sends is one step; the     *)
(* steps of the two runs interleave in any order.                               *)

\* One step of the pipeline of run r on the store (N, E): the step its pc names
PipelineStep(r, N, E, now) ==
    LET same(q) == [run |-> q, nodes |-> N, edges |-> E]
    IN  CASE r.pc = "VALIDATE" ->
               LET v == validate_extracted_data(r.data)
               IN  same(IF r.validate /\ (v.raised \/ v.errors # <<>>)
                        THEN [r EXCEPT !.pc = "ABORT"]
                        ELSE [r EXCEPT !.pc = "ENSURE_SCHEMA", !.conn = "open"])
          [] r.pc = "ENSURE_SCHEMA" -> same([r EXCEPT !.pc = "WRITE_SCHEMA_BLOCK"])
          [] r.pc = "WRITE_SCHEMA_BLOCK" ->
               [run |-> [r EXCEPT !.pc = "WRITE_ENTITIES",
                                  !.spec_id = SchemaBlockIds(r.data)[1],
                                  !.diagram_id = SchemaBlockIds(r.data)[2]],
                nodes |-> create_schema_block(N, r.data, now),
                edges |-> E]
          [] r.pc = "WRITE_ENTITIES" ->
               IF r.data.entities.t = "absent"
               THEN same([r EXCEPT !.pc = "WRITE_RELATIONSHIPS"])
               ELSE IF PartitionRaises(r.data)
               THEN same([r EXCEPT !.pc = "FAILED", !.conn = "closed"])
               ELSE [run |-> [r EXCEPT !.pc = "WRITE_REFTYPES",
                                 !.entity_fqns = ReturnedFqns(r.entity_fqns,
                                                     PartitionItems(r.data, FALSE), r.spec_id)],
                     nodes |-> WriteEntities(N, r.data, r.spec_id),
                     edges |-> E]
          [] r.pc = "WRITE_REFTYPES" ->
               [run |-> [r EXCEPT !.pc = "WRITE_FIELDS",
                            !.entity_fqns = ReturnedFqns(r.entity_fqns,
                                                PartitionItems(r.data, TRUE), r.spec_id)],
                nodes |-> WriteRefTypes(N, r.data, r.spec_id),
                edges |-> E]
          [] r.pc = "WRITE_FIELDS" ->
               LET rows == FieldsList(r.data, r.entity_fqns)
               IN  IF FieldsRaise(r.data, r.entity_fqns) \/ FieldsQueryFails(rows)
                   THEN same([r EXCEPT !.pc = "FAILED", !.conn = "closed"])
                   ELSE [run |-> [r EXCEPT !.pc = "WRITE_RELATIONSHIPS"],
                         nodes |-> WriteFieldNodes(N, rows),
                         edges |-> WriteFieldEdges(WriteFieldNodes(N, rows), E, rows)]
          [] r.pc = "WRITE_RELATIONSHIPS" ->
               IF RelationshipsRaise(r.data)
               THEN same([r EXCEPT !.pc = "FAILED", !.conn = "closed"])
               ELSE LET kept == SelectSeq(Relationships(r.data),
                                          LAMBDA rel : Resolves(rel, r.entity_fqns))
                        rows == RelationshipsList(r.data, r.entity_fqns)
                    IN  [run |-> [r EXCEPT !.pc = "LINK_CONTAINMENT",
                                     !.written = [i \in 1..Len(rows) |->
                                                    [rel |-> kept[i],
                                                     writes |-> WrittenBy(N, rows[i])]]],
                         nodes |-> N,
                         edges |-> WriteRelationships(N, E, rows)]
          [] r.pc = "LINK_CONTAINMENT" ->
               [run |-> [r EXCEPT !.pc = "DONE", !.conn = "closed"],
                nodes |-> N,
                edges |-> LinkContainment(N, E, r.spec_id, r.diagram_id)]
          [] OTHER -> same(r)

\* In a single run the steps are the steps of PipelineStep.
StepsArePipelineSteps ==
    [][run.pc \notin Terminal \cup {"INIT"} =>
          LET o == PipelineStep(run, nodes, edges, clock)
          IN  run' = o.run /\ nodes' = o.nodes /\ edges' = o.edges]_vars

\* The run from its current step to its end, undisturbed
RECURSIVE RunToEnd(_, _, _, _)
RunToEnd(r, N, E, now) ==
    IF r.pc \in Terminal THEN [run |-> r, nodes |-> N, edges |-> E]
    ELSE LET o == PipelineStep(r, N, E, now)
         IN  RunToEnd(o.run, o.nodes, o.edges, now)

NewRun(d, v) == [NoRun EXCEPT !.pc = "VALIDATE", !.data = d, !.validate = v]

\* First the run on d1, then the run on d2, from the store (N, E)
InSequence(d1, d2, N, E) ==
    LET first == RunToEnd(NewRun(d1, TRUE), N, E, 0)
    IN  RunToEnd(NewRun(d2, TRUE), first.nodes, first.edges, 1)

\* Documents of diagram p1 of spec tmf1
DiagramOneDocs ==
    {Doc(MetaPath, <<Plain(NAME_X)>>, <<>>),
     Doc(MetaPath, <<WithField(NAME_X), Plain(NAME_Y)>>,
         <<Rel(PyStr(NAME_X), PyStr(NAME_Y), STR_out, CARD_1, PyAbsent, PyAbsent)>>)}

\* Documents of diagram p2 of spec tmf1
DiagramTwoDocs ==
    {Doc(MetaDiag2, <<Plain(NAME_Y)>>, <<>>),
     Doc(MetaDiag2, <<Plain(NAME_Y), Plain(NAME_Z)>>,
         <<Rel(PyStr(NAME_Y), PyStr(NAME_Z), STR_bidirectional, PyAbsent, PyAbsent, CARD_star)>>)}

InitConcurrent ==
    /\ arg = NoCall
    /\ res = NoCall
    /\ nodes = EmptyMap
    /\ edges = EmptyMap
    /\ schema = {}
    /\ server = ServerNew
    /\ clock = 0
    /\ \E d1 \in DiagramOneDocs, d2 \in DiagramTwoDocs :
          run = <<NewRun(d1, TRUE), NewRun(d2, TRUE)>>
    /\ hist = [runs |-> 2,
               last |-> NoLastRun,
               start |-> [nodes |-> EmptyMap, edges |-> EmptyMap, schema |-> {}],
               faults |-> {}]
    /\ data_storage = NoStorage
    /\ app = NoApp

\* Run p sends its next statement
RunStep(p) ==
    /\ run[p].pc \notin Terminal
    /\ \E o \in {PipelineStep(run[p], nodes, edges, clock)} :
          /\ run' = [run EXCEPT ![p] = o.run]
          /\ nodes' = o.nodes
          /\ edges' = o.edges
    /\ clock' = IF run[p].pc = "WRITE_SCHEMA_BLOCK" THEN clock + 1 ELSE clock
    /\ schema' = IF run[p].pc = "ENSURE_SCHEMA"
                 THEN create_stable_indexes(create_stable_constraints(schema), server)
                 ELSE schema
    /\ UNCHANGED <<data_storage, app, arg, res, server, hist>>

FirstRunStep == RunStep(1)

SecondRunStep == RunStep(2)

NextConcurrent == FirstRunStep \/ SecondRunStep

SpecConcurrent == InitConcurrent /\ [][NextConcurrent]_vars

BothDone == run[1].pc = "DONE" /\ run[2].pc = "DONE"

\* The store the two runs leave when the first runs to its end before the second begins
FirstThenSecond == InSequence(run[1].data, run[2].data, EmptyMap, EmptyMap)

\* C12 as stated: two runs over different diagrams of one specification end, in every
\* order and interleaving of their steps, with the same set of nodes and the same set
\* of edges, containment edges included.
C12_OrderIndependent ==
    BothDone =>
        /\ DOMAIN nodes = DOMAIN FirstThenSecond.nodes
        /\ DOMAIN edges = DOMAIN FirstThenSecond.edges

\* What does hold: the same set of nodes, and the same set of edges other than
\* containment edges.
OrderIndependentButContainment ==
    BothDone =>
        /\ DOMAIN nodes = DOMAIN FirstThenSecond.nodes
        /\ {e \in DOMAIN edges : e[2] # "CONTAINS_ENTITY"}
              = {e \in DOMAIN FirstThenSecond.edges : e[2] # "CONTAINS_ENTITY"}

----------------------------------------------------------------------------
(* Runs against a store that can fail: a statement the run sends raises        *)
(* (connection lost, authentication refused).                                  *)

MaxFaultRuns == 3

FaultDocs ==
    {Doc(MetaPath, <<WithField(NAME_X), Plain(NAME_Y)>>,
         <<Rel(PyStr(NAME_X), PyStr(NAME_Y), STR_bidirectional, CARD_1, PyAbsent, CARD_star),
           Rel(PyStr(NAME_Y), PyStr(NAME_X), STR_out, PyAbsent, CARD_0_1, PyAbsent)>>),
     Doc(MetaDiag2, <<WithField(NAME_X), Plain(NAME_X_f), Plain(NAME_XRef)>>,
         <<Rel(PyStr(NAME_X_f), PyStr(NAME_XRef), STR_out, PyAbsent, PyAbsent, PyAbsent)>>)}

\* The step the run is at sends a statement to the store
SendsStatement(r) ==
    CASE r.pc \in {"WRITE_SCHEMA_BLOCK", "LINK_CONTAINMENT"} -> TRUE
      [] r.pc = "WRITE_ENTITIES" ->
           /\ r.data.entities.t # "absent"
           /\ ~PartitionRaises(r.data)
           /\ PartitionItems(r.data, FALSE) # <<>>
      [] r.pc = "WRITE_REFTYPES" -> PartitionItems(r.data, TRUE) # <<>>
      [] r.pc = "WRITE_FIELDS" ->
           /\ ~FieldsRaise(r.data, r.entity_fqns)
           /\ FieldsList(r.data, r.entity_fqns) # <<>>
      [] r.pc = "WRITE_RELATIONSHIPS" ->
           /\ ~RelationshipsRaise(r.data)
           /\ RelationshipsList(r.data, r.entity_fqns) # <<>>
      [] OTHER -> FALSE

\* lines 392-589: the statement of the step raises, nothing of it is written, the
\* exception leaves populate_neo4j through `finally: driver.close()`
StoreFailure ==
    /\ SendsStatement(run)
    /\ run' = Fail
    /\ hist' = [hist EXCEPT !.faults = @ \cup {run.pc}]
    /\ UNCHANGED <<data_storage, app, arg, res, nodes, edges, schema, server, clock>>

\* lines 214-218, 232-236, 246-266: every statement of the declaration step raises; each
\* exception is caught where it is raised and the run goes on
EnsureSchemaStoreFailure ==
    /\ run.pc = "ENSURE_SCHEMA"
    /\ \E create_constraints_flag \in BOOLEAN, create_indexes_flag \in BOOLEAN :
          create_constraints_flag \/ create_indexes_flag
    /\ run' = [run EXCEPT !.pc = "WRITE_SCHEMA_BLOCK"]
    /\ hist' = [hist EXCEPT !.faults = @ \cup {run.pc}]
    /\ UNCHANGED <<data_storage, app, arg, res, nodes, edges, schema, server, clock>>

StartFaultRun == StartRun(FaultDocs, MaxFaultRuns)

NextFaults ==
    \/ StartFaultRun
    \/ Validate
    \/ EnsureSchema
    \/ EnsureSchemaStoreFailure
    \/ WriteSchemaBlock
    \/ WriteEntitiesStep
    \/ WriteRefTypesStep
    \/ WriteFieldsStep
    \/ WriteRelationshipsStep
    \/ LinkContainmentStep
    \/ StoreFailure

SpecFaults == Init /\ [][NextFaults]_vars

----------------------------------------------------------------------------
(* Properties of runs against a store that can fail (SpecFaults) *)

\* The run that just completed repeated the document of the run before it, which a
\* store failure had ended
RecoveredRun ==
    /\ run.pc = "DONE"
    /\ hist.last.pc = "FAILED"
    /\ hist.last.faults # {}
    /\ hist.last.data = run.data

\* One undisturbed run of the document from the store the failed run began on, reading
\* the clock as the rerun read it
Uninterrupted ==
    RunToEnd(NewRun(run.data, run.validate), hist.last.start.nodes, hist.last.start.edges,
             clock - 1)

\* C13: when a run on D is ended by a failure after VALIDATE and the pipeline is then
\* run again on D from the start and completes, the nodes, edges and property values are
\* those of one uninterrupted run of D from the store the failed run began on.
C13_RecoveryByRerun ==
    RecoveredRun => nodes = Uninterrupted.nodes /\ edges = Uninterrupted.edges

\* A rerun completed after a failure that had left a partial write on a store that was
\* not empty
C13_Witness ==
    /\ RecoveredRun
    /\ hist.last.nodes # hist.last.start.nodes
    /\ hist.last.start.nodes # EmptyMap
    /\ \E e \in DOMAIN edges : e[2] = "RELATES_TO"

\* C14 as stated: a store failure in any step after VALIDATE, the declaration of
\* constraints and indexes included, ends the run in failure, and no later step of the
\* pipeline is executed.
C14_StoreFailureIsFatal == hist.faults # {} => run.pc = "FAILED"

\* What does hold: a store failure in any step after the declaration step ends the run
\* in failure.
StoreFailureAfterDeclarationIsFatal ==
    hist.faults \ {"ENSURE_SCHEMA"} # {} => run.pc = "FAILED"

\* C15: no terminal state of a run leaves its connection open: a run that acquired a
\* connection has closed it when it is DONE and when a step after the acquisition
\* failed.
C15_ConnectionReleased ==
    /\ run.pc \in Terminal => run.conn # "open"
    /\ run.pc \in {"DONE", "FAILED"} => run.conn = "closed"
    /\ run.pc \notin Terminal \cup {"INIT", "VALIDATE"} => run.conn = "open"

\* A store failure has ended a run whose earlier statements were written
C15_Witness ==
    /\ run.pc = "FAILED"
    /\ hist.faults # {}
    /\ nodes # hist.start.nodes
    /\ run.conn = "closed"

----------------------------------------------------------------------------

\* The steps that follow one another in a run.  The Entity and the RefType statement
\* are the two halves of WRITE_ENTITIES; without an `entities` key the entity and the
\* field step send nothing.
Successions ==
    {<<"VALIDATE", "ENSURE_SCHEMA">>,
     <<"ENSURE_SCHEMA", "WRITE_SCHEMA_BLOCK">>,
     <<"WRITE_SCHEMA_BLOCK", "WRITE_ENTITIES">>,
     <<"WRITE_ENTITIES", "WRITE_REFTYPES">>,
     <<"WRITE_ENTITIES", "WRITE_RELATIONSHIPS">>,
     <<"WRITE_REFTYPES", "WRITE_FIELDS">>,
     <<"WRITE_FIELDS", "WRITE_RELATIONSHIPS">>,
     <<"WRITE_RELATIONSHIPS", "LINK_CONTAINMENT">>,
     <<"LINK_CONTAINMENT", "DONE">>}

WriteSteps ==
    {"WRITE_SCHEMA_BLOCK", "WRITE_ENTITIES", "WRITE_REFTYPES", "WRITE_FIELDS",
     "WRITE_RELATIONSHIPS", "LINK_CONTAINMENT"}

\* C16: in every run the steps occur only in the order VALIDATE, ENSURE_SCHEMA,
\* WRITE_SCHEMA_BLOCK, WRITE_ENTITIES, WRITE_FIELDS, WRITE_RELATIONSHIPS,
\* LINK_CONTAINMENT; constraints and indexes are declared in ENSURE_SCHEMA only, before
\* any node or edge is written, and containment edges are added in LINK_CONTAINMENT
\* only, after the entity write.
C16_StepOrder ==
    [][/\ run.pc \notin Terminal \cup {"INIT"} /\ run'.pc # run.pc
          /\ run'.pc \notin {"ABORT", "FAILED"}
          => <<run.pc, run'.pc>> \in Successions
       /\ run.pc \in Terminal \cup {"INIT"} /\ run'.pc # run.pc => run'.pc = "VALIDATE"
       /\ schema' # schema => run.pc = "ENSURE_SCHEMA"
       /\ nodes' # nodes \/ edges' # edges => run.pc \in WriteSteps
       /\ (\E e \in DOMAIN edges' \ DOMAIN edges : e[2] = "CONTAINS_ENTITY")
          => run.pc = "LINK_CONTAINMENT" /\ run.entity_fqns # EmptyMap]_vars

\* A run has gone through every step: constraints declared, entities, fields and
\* relationships written, containment linked
C16_Witness ==
    /\ run.pc = "DONE"
    /\ schema # {}
    /\ run.entity_fqns # EmptyMap
    /\ run.written # <<>>
    /\ \E e \in DOMAIN edges : e[2] = "HAS_FIELD"
    /\ \E e \in DOMAIN edges : e[2] = "CONTAINS_ENTITY"

----------------------------------------------------------------------------

SchemaBlockNodes(N) == {n \in DOMAIN N : n[1] = "SchemaBlock"}

\* C17: there is exactly one SchemaBlock node per populated diagramId; a rerun with
\* the same diagramId sets that node's properties in place and adds no second
\* SchemaBlock, and no SchemaBlock is ever removed.
C17_OneSchemaBlockPerDiagram ==
    /\ [](\A n \in SchemaBlockNodes(nodes) :
             Cardinality(MatchSchemaBlock(nodes, nodes[n].diagramId)) = 1)
    /\ [](run.diagram_id # <<>>
          => \E n \in SchemaBlockNodes(nodes) :
                /\ MatchSchemaBlock(nodes, run.diagram_id) = {n}
                /\ nodes[n] = SchemaBlockProps(run.data, clock - 1))
    /\ [][/\ SchemaBlockNodes(nodes) \subseteq SchemaBlockNodes(nodes')
          /\ run.pc = "WRITE_SCHEMA_BLOCK"
             /\ MatchSchemaBlock(nodes, SchemaBlockIds(run.data)[2]) # {}
             => SchemaBlockNodes(nodes') = SchemaBlockNodes(nodes)]_vars

\* A second completed run with the diagramId of the first has changed the properties
\* of the one SchemaBlock
C17_Witness ==
    /\ run.pc = "DONE"
    /\ hist.last.done
    /\ SchemaBlockIds(hist.last.data)[2] = run.diagram_id
    /\ Cardinality(SchemaBlockNodes(nodes)) = 1
    /\ \E n \in SchemaBlockNodes(nodes) :
          /\ n \in DOMAIN hist.last.nodes
          /\ hist.last.nodes[n] # nodes[n]

----------------------------------------------------------------------------

\* Some edge Order -> OrderRef carries the properties the first FOREACH sets for rel
PersistedAsWritten(rel) ==
    \E e \in RelationshipEdges :
       /\ nodes[e[1]].fqn = FQN_Order
       /\ nodes[e[3]].fqn = FQN_OrderRef
       /\ edges[e] = OutProps(RelRow(rel, run.entity_fqns))

\* The second of two completed runs: has_ref alone, then owns alone
HasRefThenOwns ==
    /\ run.pc = "DONE"
    /\ run.data = ScenarioDocOwns
    /\ hist.last.done
    /\ hist.last.data = ScenarioDocHasRef
    /\ hist.last.start.nodes = EmptyMap

\* C18: two relationships with the same from and to entities and different type values,
\* in one document or in successive runs, are persisted as two distinct edges, each
\* with the properties of its own relationship.
C18_MergedOnTypedTuple ==
    /\ CompletedFromEmpty(ScenarioDocTwoTypes)
       => /\ PersistedAsWritten(RelHasRef)
          /\ PersistedAsWritten(RelOwns)
          /\ Cardinality(RelationshipEdges) = 2
    /\ HasRefThenOwns
       => /\ PersistedAsWritten(RelHasRef)
          /\ PersistedAsWritten(RelOwns)
          /\ Cardinality(RelationshipEdges) = 2

\* MERGE (from)-[r:RELATES_TO]->(to) binds on the two end nodes alone: the two
\* relationships share one edge, which carries the properties of the later one.
MergedOnEndpoints ==
    CompletedFromEmpty(ScenarioDocTwoTypes) \/ HasRefThenOwns
    => /\ Cardinality(RelationshipEdges) = 1
       /\ PersistedAsWritten(RelOwns)
       /\ ~PersistedAsWritten(RelHasRef)

----------------------------------------------------------------------------
(* determine_entity_kind on one (short name, entity data) pair *)

MaxNameLen == 2

NameAlphabet == {"a", "R"}

NameTails ==
    {<<>>, SUFFIX_Ref, SUFFIX_Reference, <<"R","e">>, <<"r","e","f">>, <<"R","e","f","s">>}

NameInputs == {p \o t : p \in StringsUpTo(NameAlphabet, MaxNameLen), t \in NameTails}

\* No kind, each allowlisted kind, and kinds outside the allowlist: a string, the empty
\* string, null, a number, a list
DeclaredKinds ==
    {PyAbsent, STR_Entity, STR_RefType, STR_SchemaBlock, STR_Hacked, PyStr(<<>>), PyNone,
     PyInt(<<"1">>), PyList}

EntityDataInputs ==
    {Ent(<<>>, k, NoProperties).data : k \in DeclaredKinds} \cup {NullEnt(<<>>).data}

CallDetermineEntityKind ==
    /\ arg = NoCall
    /\ \E n \in NameInputs, d \in EntityDataInputs :
          /\ arg' = [f |-> "determine_entity_kind", entity_name |-> n, entity_data |-> d]
          /\ res' = [f |-> "determine_entity_kind", value |-> determine_entity_kind(n, d)]
    /\ UNCHANGED <<data_storage, app, nodes, edges, schema, server, clock, run, hist>>

SpecKind == InitPure /\ [][CallDetermineEntityKind]_vars

KindCalled == arg.f = "determine_entity_kind"

\* name = prefix + suffix for some prefix
HasSuffix(name, suffix) ==
    \E k \in 0..Len(name) : SubSeq(name, k + 1, Len(name)) = suffix

RefName(name) == HasSuffix(name, SUFFIX_Ref) \/ HasSuffix(name, SUFFIX_Reference)

\* The kind the rule gives: RefType by suffix, else the declared kind when it is
\* allowlisted, else Entity
ResolvedByRule(name, data) ==
    IF RefName(name) THEN STR_RefType
    ELSE IF data.kind \in ALLOWED_KINDS THEN data.kind
    ELSE STR_Entity

\* C19: determine_entity_kind returns RefType for every short name ending in "Ref" or
\* "Reference" whatever kind is declared; otherwise the declared kind when it is one of
\* Entity, RefType, SchemaBlock; otherwise (no declared kind, or one outside the
\* allowlist) Entity.
C19_KindResolution ==
    KindCalled => res.value = ResolvedByRule(arg.entity_name, arg.entity_data)

\* The rule holds whenever the entity data is a dictionary and the declared kind is
\* hashable; `kind in ALLOWED_KINDS` raises TypeError on a list, and `"kind" in
\* entity_data` on null entity data.
KindResolutionForHashableKinds ==
    /\ KindCalled
       /\ arg.entity_data.t = "dict"
       /\ Hashable(arg.entity_data.kind)
       => res.value = ResolvedByRule(arg.entity_name, arg.entity_data)
    /\ KindCalled
       /\ ~RefName(arg.entity_name)
       /\ (arg.entity_data.t # "dict" \/ ~Hashable(arg.entity_data.kind))
       => res.value = PyRaise

\* A name without the suffix and a list as declared kind
UnhashableKindCalled ==
    /\ KindCalled
    /\ ~RefName(arg.entity_name)
    /\ arg.entity_data.t = "dict"
    /\ arg.entity_data.kind = PyList

----------------------------------------------------------------------------

\* A kind of the allowlist as a node label
LabelOf(kind) ==
    CASE kind = STR_RefType     -> "RefType"
      [] kind = STR_SchemaBlock -> "SchemaBlock"
      [] OTHER                  -> "Entity"

\* Entity i of the current document has a node with the given kind as label and as kind
\* property, and the map returned by the entity write holds its fqn
PersistedWithKind(i, kind) ==
    LET ent == Entities(run.data)[i]
        fqn == generate_fqn(run.spec_id, ent.name)
        n   == <<LabelOf(kind), fqn>>
    IN  /\ n \in DOMAIN nodes
        /\ nodes[n].kind = kind
        /\ nodes[n].name = ent.name
        /\ ent.name \in DOMAIN run.entity_fqns
        /\ run.entity_fqns[ent.name] = fqn

ResolvedKind(i) ==
    determine_entity_kind(Entities(run.data)[i].name, Entities(run.data)[i].data)

\* C20: after the entity write every entity of the document has a node whose label and
\* kind property equal the kind determine_entity_kind resolved for it (Entity, RefType
\* or SchemaBlock), and the returned short-name -> fqn map contains every entity.
C20_ResolvedKindPersisted ==
    EntitiesWritten => \A i \in 1..Len(Entities(run.data)) : PersistedWithKind(i, ResolvedKind(i))

\* The partition knows two kinds: RefType, and Entity for everything else, a resolved
\* SchemaBlock included.
PersistedAsEntityOrRefType ==
    EntitiesWritten =>
       \A i \in 1..Len(Entities(run.data)) :
          PersistedWithKind(i, IF ResolvedKind(i) = STR_RefType THEN STR_RefType
                               ELSE STR_Entity)

\* The entity write has run on a document with an entity that resolves to SchemaBlock
ResolvedSchemaBlockWritten ==
    /\ EntitiesWritten
    /\ \E i \in 1..Len(Entities(run.data)) : ResolvedKind(i) = STR_SchemaBlock

----------------------------------------------------------------------------
(* derive_spec_id on one (source path, metadata) pair *)

\* Directory prefixes: none, a plain parent, parents that look like a spec, a deeper
\* path, the root
DirInputs ==
    {<<>>, <<"d","/">>, <<"t","m","f","1","/">>, <<"s","p","e","c","/">>,
     <<"x","/","d","/">>, <<"/">>}

\* File stems: plain, with an underscore, with a spec-like prefix before the underscore
StemInputs ==
    {<<"p">>, <<"a","_","b">>, <<"a","_","b","_","c">>, <<"t","m","f","_","x">>,
     <<"s","p","e","c","9","_","y">>, <<"t","m","f","2">>}

SuffixInputs == {<<>>, <<".","p","n","g">>}

PathInputs == {d \o n \o x : d \in DirInputs, n \in StemInputs, x \in SuffixInputs}

STR_g == <<"g">>
STR_s == <<"s">>

\* specId absent or given; diagramId absent, given, given empty, given null
MetaInputs ==
    {Meta(PyAbsent, sp, dg, PyAbsent) :
        sp \in {PyAbsent, PyStr(STR_s)},
        dg \in {PyAbsent, PyStr(STR_g), PyStr(<<>>), PyNone}}

CallDeriveSpecId ==
    /\ arg = NoCall
    /\ \E path \in PathInputs, meta \in MetaInputs :
          /\ arg' = [f |-> "derive_spec_id", source_path |-> path, meta |-> meta]
          /\ res' = [f |-> "derive_spec_id", value |-> derive_spec_id(path, meta)]
    /\ UNCHANGED <<data_storage, app, nodes, edges, schema, server, clock, run, hist>>

SpecDerive == InitPure /\ [][CallDeriveSpecId]_vars

DeriveCalled == arg.f = "derive_spec_id"

\* C21: whenever the metadata supplies specId the returned specId equals it, and
\* whenever it supplies diagramId the returned diagramId equals it, whatever the source
\* path and whether or not the other override is present.
C21_OverridesPreferred ==
    DeriveCalled =>
       /\ arg.meta.specId.t # "absent" => res.value[1] = arg.meta.specId.s
       /\ arg.meta.diagramId.t = "str" => res.value[2] = arg.meta.diagramId.s

\* diagramId is read only inside `if "specId" in meta`, and there through
\* `meta.get("diagramId") or stem`: it overrides when specId is given too and it is
\* not empty; without specId the result is that of the path alone.
DiagramOverrideNeedsSpecId ==
    DeriveCalled =>
       /\ arg.meta.specId.t # "absent" =>
             /\ res.value[1] = arg.meta.specId.s
             /\ res.value[2] = IF arg.meta.diagramId.t = "str" /\ arg.meta.diagramId.s # <<>>
                               THEN arg.meta.diagramId.s
                               ELSE PathStem(arg.source_path)
       /\ arg.meta.specId.t = "absent" =>
             res.value = derive_spec_id(arg.source_path,
                                        Meta(PyAbsent, PyAbsent, PyAbsent, PyAbsent))

\* A diagramId override without a specId override
DiagramOverrideAlone ==
    /\ DeriveCalled
    /\ arg.meta.specId.t = "absent"
    /\ arg.meta.diagramId = PyStr(STR_g)

----------------------------------------------------------------------------

HasUnderscore(stem) == IndexOf(stem, "_") # 0

\* No override, and neither the parent segment nor the filename prefix before the
\* first underscore looks like a spec
FallbackCase ==
    LET parts == PathParts(arg.source_path)
        stem  == PathStem(arg.source_path)
    IN  /\ DeriveCalled
        /\ arg.meta.specId.t = "absent"
        /\ ~(Len(parts) >= 2 /\ LooksLikeSpec(parts[Len(parts) - 1]))
        /\ ~(HasUnderscore(stem) /\ LooksLikeSpec(SplitOnce(stem, "_")[1]))

\* The parent directory name, or the sentinel when the path has no parent segment
ParentOrDefault(path) ==
    LET parts == PathParts(path)
    IN  IF Len(parts) >= 2 THEN parts[Len(parts) - 1] ELSE STR_default

\* C22: without override and without a spec-like parent segment or filename prefix,
\* derive_spec_id returns the parent directory name (or "default" when there is no
\* parent segment) as specId and the full filename stem as diagramId, also when the
\* stem contains an underscore.
C22_FallbackToParent ==
    FallbackCase =>
       res.value = <<ParentOrDefault(arg.source_path), PathStem(arg.source_path)>>

\* `parts` is rebound to stem.split("_", 1) before the fallback reads parts[-2]: for a
\* stem with an underscore the specId is the text before the first underscore, with or
\* without a parent directory.
FallbackReadsReboundParts ==
    FallbackCase =>
       /\ res.value[2] = PathStem(arg.source_path)
       /\ res.value[1] = IF HasUnderscore(PathStem(arg.source_path))
                         THEN SplitOnce(PathStem(arg.source_path), "_")[1]
                         ELSE ParentOrDefault(arg.source_path)

\* A fallback path whose stem has an underscore, under a parent directory
FallbackWithUnderscore ==
    /\ FallbackCase
    /\ HasUnderscore(PathStem(arg.source_path))
    /\ Len(PathParts(arg.source_path)) >= 2

----------------------------------------------------------------------------
(* Runs against servers of different versions, and servers whose version probe   *)
(* raises.                                                                       *)

MaxServerRuns == 1

MaxServerMajor == 5
MaxServerMinor == 4

ServerInputs ==
    [probe_ok : BOOLEAN, major : (MIN_MAJOR - 1)..MaxServerMajor, minor : 0..MaxServerMinor]

InitServer ==
    /\ arg = [f |-> "none"]
    /\ res = [f |-> "none"]
    /\ nodes = EmptyMap
    /\ edges = EmptyMap
    /\ schema = {}
    /\ server \in ServerInputs
    /\ clock = 0
    /\ run = NoRun
    /\ hist = [runs |-> 0,
               last |-> NoLastRun,
               start |-> [nodes |-> EmptyMap, edges |-> EmptyMap, schema |-> {}],
               faults |-> {}]
    /\ data_storage = NoStorage
    /\ app = NoApp

StartServerRun == StartRun({ScenarioDocProperties}, MaxServerRuns)

NextServer ==
    \/ StartServerRun
    \/ Validate
    \/ EnsureSchema
    \/ WriteSchemaBlock
    \/ WriteEntitiesStep
    \/ WriteRefTypesStep
    \/ WriteFieldsStep
    \/ WriteRelationshipsStep
    \/ LinkContainmentStep

SpecServer == InitServer /\ [][NextServer]_vars

\* The server is of version 4.3 or higher
SupportsRelIndexes(srv) ==
    \/ srv.major > MIN_MAJOR
    \/ srv.major = MIN_MAJOR /\ srv.minor >= MIN_MINOR

\* The declaration step has created the node indexes: create_stable_indexes was called
IndexesDeclared(S) == NODE_INDEX_NAMES \subseteq S

\* C23 as stated: relationship-property indexes are issued only if the version probe
\* succeeds and reports 4.3 or higher; if the probe raises or reports a lower version
\* none is issued; the run does not fail either way.
C23_RelIndexesOnlyAfterProbe ==
    [][run.pc = "ENSURE_SCHEMA" =>
          /\ run'.pc = "WRITE_SCHEMA_BLOCK"
          /\ REL_INDEX_NAMES \cap schema' # {}
             => server.probe_ok /\ SupportsRelIndexes(server)
          /\ IndexesDeclared(schema') /\ server.probe_ok /\ SupportsRelIndexes(server)
             => REL_INDEX_NAMES \subseteq schema']_vars

\* C23 amended: relationship-property indexes are skipped only if the version probe
\* succeeds and reports a version below 4.3; if the probe raises, or reports 4.3 or
\* higher, they are issued; the run does not fail either way.
C23_RelIndexesUnlessProbedOld ==
    [][run.pc = "ENSURE_SCHEMA" =>
          /\ run'.pc = "WRITE_SCHEMA_BLOCK"
          /\ REL_INDEX_NAMES \cap schema' # {}
             => IndexesDeclared(schema')
                /\ (~server.probe_ok \/ SupportsRelIndexes(server))
          /\ IndexesDeclared(schema') /\ (~server.probe_ok \/ SupportsRelIndexes(server))
             => REL_INDEX_NAMES \subseteq schema']_vars

\* A run went past the declaration step with indexes declared on a server whose
\* probe raised, and completed
C23_Witness ==
    /\ run.pc = "DONE"
    /\ ~server.probe_ok
    /\ ~SupportsRelIndexes(server)
    /\ IndexesDeclared(schema)
    /\ REL_INDEX_NAMES \subseteq schema

----------------------------------------------------------------------------
(* Runs on documents with relationships the writer drops: an endpoint that is    *)
(* no entity of the document, or an entity whose short name is the empty string. *)

MaxDropRuns == 1

NAME_Empty == <<>>

OutRel(from, to) == Rel(PyStr(from), PyStr(to), STR_out, PyAbsent, PyAbsent, PyAbsent)

DropDocs ==
    {Doc(MetaPath, <<Plain(NAME_X), Plain(NAME_Y)>>,
         <<OutRel(NAME_X, NAME_Z),
           Rel(PyStr(NAME_X), PyStr(NAME_Y), d, PyAbsent, CARD_1, PyAbsent)>>) :
        d \in {PyAbsent, STR_out, STR_in, STR_bidirectional}}
    \cup {Doc(MetaPath, <<Plain(NAME_X), Plain(NAME_Y)>>,
              <<OutRel(NAME_Y, NAME_X), OutRel(NAME_Z, NAME_Y)>>),
          Doc(MetaPath, <<Plain(NAME_X), Plain(NAME_Y)>>,
              <<OutRel(NAME_X, NAME_Y), [OutRel(NAME_Y, NAME_X) EXCEPT !.direction = STR_in]>>),
          Doc(MetaPath, <<Plain(NAME_Empty), Plain(NAME_Y)>>,
              <<OutRel(NAME_Empty, NAME_Y), OutRel(NAME_Y, NAME_Y)>>),
          Doc(MetaPath, <<Plain(NAME_Empty), Plain(NAME_Y)>>,
              <<OutRel(NAME_Y, NAME_Empty), OutRel(NAME_Y, NAME_Z)>>)}

StartDropRun == StartRun(DropDocs, MaxDropRuns)

NextDrop ==
    \/ StartDropRun
    \/ Validate
    \/ EnsureSchema
    \/ WriteSchemaBlock
    \/ WriteEntitiesStep
    \/ WriteRefTypesStep
    \/ WriteFieldsStep
    \/ WriteRelationshipsStep
    \/ LinkContainmentStep

SpecDrop == Init /\ [][NextDrop]_vars

\* Both short names are keys of the entity map of the current run
EndsAreKeys(rel) ==
    /\ rel.from.s \in DOMAIN run.entity_fqns
    /\ rel.to.s \in DOMAIN run.entity_fqns

\* The relationship statement wrote at least one edge for the relationship
PersistedByRun(rel) ==
    \E i \in 1..Len(run.written) : run.written[i].rel = rel /\ run.written[i].writes # {}

\* The relationship was not handed to the relationship statement
DroppedByRun(rel) ==
    \A i \in 1..Len(run.written) : run.written[i].rel # rel

\* C24: with validation bypassed, a relationship whose from or to short name is not a
\* key of the entity map is dropped without raising: no edge is written for it, the
\* run does not fail, and every other relationship of the document, with resolvable
\* endpoints, is persisted.
C24_UnresolvedDropped ==
    /\ ~run.validate => run.pc # "FAILED"
    /\ RelationshipsWritten /\ ~run.validate =>
          \A i \in 1..Len(Relationships(run.data)) :
             LET rel == Relationships(run.data)[i]
             IN  IF EndsAreKeys(rel) THEN PersistedByRun(rel) ELSE DroppedByRun(rel)

\* What does hold: the relationship with an end that is no key is dropped and the run
\* goes on; of the others, those are persisted whose direction is not "in" and whose
\* short names are not empty.
UnresolvedDroppedOthersHandedOn ==
    /\ ~run.validate => run.pc # "FAILED"
    /\ RelationshipsWritten /\ ~run.validate =>
          \A i \in 1..Len(Relationships(run.data)) :
             LET rel == Relationships(run.data)[i]
             IN  /\ ~EndsAreKeys(rel) => DroppedByRun(rel)
                 /\ /\ EndsAreKeys(rel)
                    /\ rel.from.s # <<>> /\ rel.to.s # <<>>
                    /\ Get(rel.direction) # STR_in
                    => PersistedByRun(rel)

\* A bypassed run completed on a document with an unresolved relationship and a
\* resolvable one of direction "in"
BypassedWithUnresolvedAndIn ==
    /\ run.pc = "DONE"
    /\ ~run.validate
    /\ \E i \in 1..Len(Relationships(run.data)) : ~EndsAreKeys(Relationships(run.data)[i])
    /\ \E i \in 1..Len(Relationships(run.data)) :
          /\ EndsAreKeys(Relationships(run.data)[i])
          /\ Get(Relationships(run.data)[i].direction) = STR_in

----------------------------------------------------------------------------

FieldNodes == {n \in DOMAIN nodes : n[1] = "Field"}

\* The has-field edges that end at node f
HasFieldInto(f) == {e \in DOMAIN edges : e[2] = "HAS_FIELD" /\ e[3] = f}

HasFieldEdgesOf(E) == {e \in DOMAIN E : e[2] = "HAS_FIELD"}

\* Field node f has exactly one incoming has-field edge, from the single entity node
\* whose fqn is the field's entityFqn
OneOwner(f) ==
    \E e \in HasFieldInto(f) :
       /\ HasFieldInto(f) = {e}
       /\ e[1] \in EntityNodes
       /\ MatchFqn(nodes, nodes[f].entityFqn) = {e[1]}

\* Every (owning entity, field name) pair of the current document has one Field node
PairsPopulated ==
    LET rows == FieldsList(run.data, run.entity_fqns)
    IN  \A i \in 1..Len(rows) :
           Cardinality({f \in FieldNodes : /\ nodes[f].entityFqn = rows[i].entity_fqn
                                           /\ nodes[f].name = rows[i].field_name}) = 1

\* The completed run repeated the document of the completed run before it
SameDocumentAgain ==
    /\ run.pc = "DONE"
    /\ hist.last.done
    /\ hist.last.data = run.data

RerunAddsNoField ==
    SameDocumentAgain =>
       /\ FieldNodes = {n \in DOMAIN hist.last.nodes : n[1] = "Field"}
       /\ HasFieldEdgesOf(edges) = HasFieldEdgesOf(hist.last.edges)

\* C25: after any sequence of completed runs there is exactly one Field node per
\* populated (owning entity, field name) pair, each Field node has exactly one incoming
\* has-field edge, whose source is the single entity node with the field's entityFqn
\* as fqn, and a rerun adds neither Field nodes nor has-field edges.
C25_OneFieldOneOwner ==
    /\ run.pc = "DONE" => PairsPopulated
    /\ run.pc \in {"INIT", "DONE"} => \A f \in FieldNodes : OneOwner(f)
    /\ RerunAddsNoField

\* What does hold: the same, for the Field nodes whose entityFqn is the fqn of one
\* node of the store.
OneFieldOneOwnerWhenUnambiguous ==
    /\ run.pc = "DONE" => PairsPopulated
    /\ run.pc \in {"INIT", "DONE"} =>
          \A f \in FieldNodes :
             Cardinality(MatchFqn(nodes, nodes[f].entityFqn)) = 1 => OneOwner(f)
    /\ RerunAddsNoField

\* A field write has run in a store that holds two nodes with the owning entity's fqn
FieldOfAmbiguousOwner ==
    /\ run.pc = "DONE"
    /\ FieldsList(run.data, run.entity_fqns) # <<>>
    /\ \E f \in FieldNodes : Cardinality(MatchFqn(nodes, nodes[f].entityFqn)) = 2

\* A Field node with two incoming has-field edges
FieldWithTwoOwners == \E f \in FieldNodes : Cardinality(HasFieldInto(f)) = 2

----------------------------------------------------------------------------
(* validate_extracted_data on documents whose relationships carry a `type` *)

\* No type, strings, and values that are no strings: null, 0, 5, true, a list
TypeInputs ==
    {PyAbsent, STR_owns, PyStr(<<>>), PyNone, PyInt(<<"0">>), PyInt(<<"5">>), PyTrue, PyList}

\* Second relationships: sound, to an unknown entity, with an invalid direction, with
\* an invalid cardinality
SecondRelInputs ==
    {Rel(PyStr(NAME_Y), PyStr(NAME_X), STR_out, PyAbsent, PyAbsent, PyAbsent),
     Rel(PyStr(NAME_Y), PyStr(NAME_Z), STR_out, PyAbsent, PyAbsent, PyAbsent),
     Rel(PyStr(NAME_Y), PyStr(NAME_X), STR_Hacked, PyAbsent, PyAbsent, PyAbsent),
     Rel(PyStr(NAME_Y), PyStr(NAME_X), STR_out, CARD_many, PyAbsent, PyAbsent)}

TypedDocs ==
    {Doc(MetaPath, <<Plain(NAME_X), Plain(NAME_Y)>>,
         <<[OutRel(NAME_X, NAME_Y) EXCEPT !.type = t1], [r2 EXCEPT !.type = t2]>>) :
        t1 \in TypeInputs, t2 \in TypeInputs, r2 \in SecondRelInputs}

CallValidateTyped ==
    /\ arg = NoCall
    /\ \E d \in TypedDocs :
          /\ arg' = [f |-> "validate_extracted_data", data |-> d]
          /\ res' = [f |-> "validate_extracted_data", value |-> validate_extracted_data(d)]
    /\ UNCHANGED <<data_storage, app, nodes, edges, schema, server, clock, run, hist>>

SpecTyped == InitPure /\ [][CallValidateTyped]_vars

ValidateCalled == arg.f = "validate_extracted_data"

\* The number of entries of the error list that equal e
Count(errors, e) == Cardinality({k \in 1..Len(errors) : errors[k] = e})

TypeGivenNoString(rel) == rel.type.t # "absent" /\ ~IsStr(rel.type)

\* The errors of relationship i other than the one about its type
OtherErrors(i, rel) ==
    RelationshipErrors(i, [rel EXCEPT !.type = PyAbsent], EntityNames(arg.data))

\* C26: validate_extracted_data never raises; a relationship whose type is present but
\* no string is reported as one error entry, and the other checks of every relationship
\* are reported as well.
C26_NeverFailsFast ==
    ValidateCalled =>
       /\ ~res.value.raised
       /\ \A i \in 1..Len(Relationships(arg.data)) :
             LET rel == Relationships(arg.data)[i]
             IN  /\ TypeGivenNoString(rel)
                    => Count(res.value.errors, Err("type_not_string", "relationship", i, 0)) = 1
                 /\ \A k \in 1..Len(OtherErrors(i, rel)) :
                       Count(res.value.errors, OtherErrors(i, rel)[k]) = 1

\* What does hold: the validator raises exactly when some type is a truthy value that
\* is no string (rel_type.startswith on it); a falsy one (null, 0) is not looked at;
\* in a list that is returned every other check of every relationship is reported, and
\* no entry is about a type.
TypeNoStringRaisesOrUnseen ==
    ValidateCalled =>
       /\ res.value.raised <=>
             \E i \in 1..Len(Relationships(arg.data)) :
                /\ TypeGivenNoString(Relationships(arg.data)[i])
                /\ Truthy(Relationships(arg.data)[i].type)
       /\ ~res.value.raised =>
             \A i \in 1..Len(Relationships(arg.data)) :
                /\ Count(res.value.errors, Err("type_not_string", "relationship", i, 0)) = 0
                /\ \A k \in 1..Len(OtherErrors(i, Relationships(arg.data)[i])) :
                      Count(res.value.errors, OtherErrors(i, Relationships(arg.data)[i])[k]) = 1

\* The first relationship has the number 5 as type, the second an unknown endpoint
NumberAsType ==
    /\ ValidateCalled
    /\ Relationships(arg.data)[1].type = PyInt(<<"5">>)
    /\ Relationships(arg.data)[2].to = PyStr(NAME_Z)

----------------------------------------------------------------------------

\* C27: when validation is enabled and reports no errors, every relationship of the
\* document is persisted as at least one edge: the writer drops none, whatever short
\* names the entities have.
C27_ValidatedNeverDrops ==
    run.validate /\ RelationshipsWritten =>
       \A i \in 1..Len(Relationships(run.data)) : PersistedByRun(Relationships(run.data)[i])

\* What does hold: in a validated run both short names of every relationship are keys
\* of the entity map; the writer drops exactly those that name the entity with the
\* empty short name, and persists the others unless their direction is "in".
ValidatedDropsEmptyNames ==
    run.validate /\ RelationshipsWritten =>
       \A i \in 1..Len(Relationships(run.data)) :
          LET rel == Relationships(run.data)[i]
          IN  /\ EndsAreKeys(rel)
              /\ DroppedByRun(rel) <=> (rel.from.s = <<>> \/ rel.to.s = <<>>)
              /\ ~DroppedByRun(rel) /\ Get(rel.direction) # STR_in => PersistedByRun(rel)

\* A validated run completed on a document with an entity whose short name is empty
ValidatedWithEmptyName ==
    /\ run.pc = "DONE"
    /\ run.validate
    /\ NAME_Empty \in EntityNames(run.data)
    /\ \E i \in 1..Len(Relationships(run.data)) : DroppedByRun(Relationships(run.data)[i])

----------------------------------------------------------------------------

ContainmentEdgesOf(E) == {e \in DOMAIN E : e[2] = "CONTAINS_ENTITY"}

\* The edge goes from a SchemaBlock to a node of the SchemaBlock's specId, in store N
WithinSpec(N, e) ==
    /\ e[1][1] = "SchemaBlock"
    /\ N[e[3]].specId = N[e[1]].specId

\* C28: after any sequence of completed runs, runs for different specifications whose
\* diagrams share a diagramId included, every containment edge connects a SchemaBlock
\* to a node whose specId equals the SchemaBlock's current specId.
C28_ContainmentWithinSpec ==
    run.pc \in {"INIT", "DONE"} => \A e \in ContainmentEdgesOf(edges) : WithinSpec(nodes, e)

\* What does hold: every containment edge is within the SchemaBlock's specId when it
\* is written, and it stays so as long as no run sets another specId on the SchemaBlock.
ContainmentWithinSpecWhenWritten ==
    [][/\ \A e \in ContainmentEdgesOf(edges') \ ContainmentEdgesOf(edges) :
             WithinSpec(nodes', e)
       /\ \A e \in ContainmentEdgesOf(edges) :
             WithinSpec(nodes, e) /\ ~WithinSpec(nodes', e)
             => /\ run.pc = "WRITE_SCHEMA_BLOCK"
                /\ e[1] \in MatchSchemaBlock(nodes, SchemaBlockIds(run.data)[2])
                /\ nodes[e[1]].specId # SchemaBlockIds(run.data)[1]]_vars

\* Two completed runs for different specifications with the same diagramId
SharedDiagramId ==
    /\ run.pc = "DONE"
    /\ hist.last.done
    /\ SchemaBlockIds(hist.last.data)[2] = run.diagram_id
    /\ SchemaBlockIds(hist.last.data)[1] # run.spec_id

----------------------------------------------------------------------------

\* C29: every containment edge ends at an Entity or RefType node: no SchemaBlock has a
\* containment edge to itself or to another SchemaBlock, and no Field node is the
\* target of one.
C29_ContainmentTargets ==
    \A e \in ContainmentEdgesOf(edges) : e[3][1] \in {"Entity", "RefType"}

\* What does hold: no Field node is a containment target; the targets are the Entity,
\* RefType and SchemaBlock nodes, and after its linking step every SchemaBlock has a
\* containment edge to itself.
ContainmentTargetsWithSpecId ==
    /\ \A e \in ContainmentEdgesOf(edges) :
          e[1][1] = "SchemaBlock" /\ e[3][1] \in {"Entity", "RefType", "SchemaBlock"}
    /\ run.pc = "DONE" =>
          \A sb \in MatchSchemaBlock(nodes, run.diagram_id) :
             <<sb, "CONTAINS_ENTITY", sb>> \in DOMAIN edges

\* The linking step has run on a document with fields
LinkedWithFields ==
    /\ run.pc = "DONE"
    /\ FieldNodes # {}
    /\ \E e \in ContainmentEdgesOf(edges) : e[3][1] = "Entity"

----------------------------------------------------------------------------
(* The mock REST app of create_tmf_app (tmf_commons/api_builder.py), built        *)
(* without extensions and without data_generator: the POST, PATCH and DELETE     *)
(* handlers of one resource.  An item is a dictionary with the keys id, href     *)
(* and name; a key that is not there holds PyAbsent.  A handler runs without     *)
(* interruption between two awaits; the PATCH handler awaits the request body    *)
(* after it has found the item's index.                                          *)

MaxRequests == 4

MaxAwaiting == 1

RESOURCE_customer == "customer"

HREF_customer ==
    <<"/","t","m","f","-","a","p","i","/","c","u","s","t","o","m","e","r","/","v","5",
      "/","c","u","s","t","o","m","e","r","/">>

\* str(uuid.uuid4()): a string no earlier call returned
Uuid(n) == <<"u">> \o Decimal(n)

\* An id that is no uuid
ID_x == <<"x">>

NAME_n == <<"n">>

\* data_storage.get(resource, [])
Items(ds, resource) == IF resource \in DOMAIN ds THEN ds[resource] ELSE <<>>

\* for i, item in enumerate(items): if item.get('id') == item_id -- the first index, or 0
FindItem(items, item_id) ==
    LET found == {i \in 1..Len(items) : items[i].id = PyStr(item_id)}
    IN  IF found = {} THEN 0 ELSE CHOOSE i \in found : \A j \in found : i <= j

\* dict.update(body)
Update(item, body) ==
    [key \in DOMAIN item |-> IF body[key].t = "absent" THEN item[key] ELSE body[key]]

\* del items[i]
RemoveAt(items, i) == SubSeq(items, 1, i - 1) \o SubSeq(items, i + 1, Len(items))

\* Request bodies of POST: with and without an id and an href of the client's
PostBodies ==
    {[id |-> i, href |-> h, name |-> PyStr(NAME_n)] :
        i \in {PyAbsent, PyStr(ID_x)}, h \in {PyAbsent, PyStr(ID_x)}}

\* The ids a client may name: the uuids issued so far, and one that is none of them
KnownIds == {Uuid(k) : k \in 0..(app.uuids - 1)} \cup {ID_x}

\* Request bodies of PATCH: a new name, a new id, both, or neither
PatchBodies ==
    {[id |-> i, href |-> PyAbsent, name |-> n] :
        i \in {PyAbsent} \cup {PyStr(u) : u \in KnownIds},
        n \in {PyAbsent, PyStr(<<>>)}}

\* lines 112-132
HandlePost ==
    /\ app.requests < MaxRequests
    /\ \E body \in PostBodies :
          LET item_id == Uuid(app.uuids)
              item == [body EXCEPT !.id = PyStr(item_id),
                                   !.href = IF body.href.t = "absent"
                                            THEN PyStr(HREF_customer \o item_id)
                                            ELSE body.href]
          IN  data_storage' =
                 [r \in DOMAIN data_storage \cup {RESOURCE_customer} |->
                     IF r = RESOURCE_customer
                     THEN Append(Items(data_storage, RESOURCE_customer), item)
                     ELSE data_storage[r]]
    /\ app' = [app EXCEPT !.uuids = @ + 1, !.requests = @ + 1]
    /\ UNCHANGED <<arg, res, nodes, edges, schema, server, clock, run, hist>>

\* lines 135-142 and 146: the handler finds the index of the item and awaits the body,
\* or answers 404
HandlePatch ==
    /\ app.requests < MaxRequests
    /\ \E item_id \in KnownIds, body \in PatchBodies :
          LET i == FindItem(Items(data_storage, RESOURCE_customer), item_id)
          IN  IF i = 0
              THEN app' = [app EXCEPT !.requests = @ + 1]
              ELSE /\ Cardinality(app.awaiting) < MaxAwaiting
                   /\ app' = [app EXCEPT !.requests = @ + 1,
                                         !.awaiting = @ \cup {[i |-> i, body |-> body]}]
    /\ UNCHANGED <<data_storage, arg, res, nodes, edges, schema, server, clock, run, hist>>

\* lines 144-145: the body has arrived; data_storage[resource][i].update(body), which
\* raises IndexError when the list has become shorter than i
ResumePatch ==
    /\ \E h \in app.awaiting :
          /\ app' = [app EXCEPT !.awaiting = @ \ {h}]
          /\ IF h.i <= Len(Items(data_storage, RESOURCE_customer))
             THEN data_storage' =
                     [data_storage EXCEPT ![RESOURCE_customer][h.i] = Update(@, h.body)]
             ELSE UNCHANGED data_storage
    /\ UNCHANGED <<arg, res, nodes, edges, schema, server, clock, run, hist>>

\* lines 150-159
HandleDelete ==
    /\ app.requests < MaxRequests
    /\ \E item_id \in KnownIds :
          LET i == FindItem(Items(data_storage, RESOURCE_customer), item_id)
          IN  IF i = 0
              THEN UNCHANGED data_storage
              ELSE data_storage' =
                      [data_storage EXCEPT ![RESOURCE_customer] = RemoveAt(@, i)]
    /\ app' = [app EXCEPT !.requests = @ + 1]
    /\ UNCHANGED <<arg, res, nodes, edges, schema, server, clock, run, hist>>

NextApp ==
    \/ HandlePost
    \/ HandlePatch
    \/ ResumePatch
    \/ HandleDelete

SpecApp == Init /\ [][NextApp]_vars

\* The id values of the stored items, in the order of the list
IdsOf(ds) ==
    [i \in 1..Len(Items(ds, RESOURCE_customer)) |-> Items(ds, RESOURCE_customer)[i].id]

PairwiseDistinct(ids) ==
    \A i \in 1..Len(ids), j \in 1..Len(ids) : i # j => ids[i] # ids[j]

\* The list of ids is as it was, or one id longer at its end, or one id shorter: every
\* item that is still stored has the id it had
IdsKept(before, after) ==
    \/ after = before
    \/ Len(after) = Len(before) + 1 /\ SubSeq(after, 1, Len(before)) = before
    \/ \E k \in 1..Len(before) : after = RemoveAt(before, k)

\* C30: after any sequence of POST, PATCH and DELETE requests on one resource, the
\* stored items have pairwise distinct ids, and the id POST gave an item stays the
\* item's id until the item is deleted.
C30_IdsDistinctAndStable ==
    /\ []PairwiseDistinct(IdsOf(data_storage))
    /\ [][IdsKept(IdsOf(data_storage), IdsOf(data_storage'))]_vars

\* What does hold: the ids POST assigns are distinct, and an id changes, or comes to be
\* shared, only in the step that applies a PATCH whose body has an id key.
IdsKeptUnlessPatched ==
    [][\/ /\ IdsKept(IdsOf(data_storage), IdsOf(data_storage'))
          /\ PairwiseDistinct(IdsOf(data_storage)) => PairwiseDistinct(IdsOf(data_storage'))
       \/ \E h \in app.awaiting \ app'.awaiting : h.body.id.t # "absent"]_vars

\* Two stored items share an id
SharedId ==
    /\ Len(IdsOf(data_storage)) >= 2
    /\ ~PairwiseDistinct(IdsOf(data_storage))

====
